---- MODULE Spec2Model ----
(***************************************************************************)
(* Model of the import reconciliation engine of nexus-ai-chat-importer:    *)
(* the pre-import selection modal (ui/pre-import-selection-modal.ts), and  *)
(* of services/import-service.ts the whole of ImportService.handleZipFile  *)
(* (validation of the archive, provider check, summaries, selection,       *)
(* processing and its progress events) and the archive normalizer          *)
(* extractRawConversationsFromZip.                                         *)
(*                                                                         *)
(* Text is modelled as a sequence of one-character strings, so that        *)
(* trimming, lower-casing, substring search and collation are computed.    *)
(***************************************************************************)
EXTENDS Integers, Sequences, FiniteSets, TLC

\* ------------------------------------------------------------- bounds
\* Longest archive (number of raw conversation records) of a modal session.
MaxRecs == 2
\* Asynchronous handlers (store reads and writes) in flight at one time.
MaxTasks == 1
\* Longest summary list handed to the filter/sort specification.
MaxSumm == 2
\* Most lines of a conversations.json text handed to the normalizer.
MaxLines == 3
\* Most entries of a zip handed to the normalizer.
MaxEntries == 2

\* ------------------------------------------------- program constants
\* renderList: "Limit to 2000 displayed to avoid UI jank".
maxRender == 2000

\* --------------------------------------------------------------- text
\* String.prototype.toLowerCase, per character.
LowerChar(c) ==
  CASE c = "A" -> "a"
    [] c = "B" -> "b"
    [] c = "U" -> "u"
    [] OTHER -> c

toLowerCase(s) == [i \in 1..Len(s) |-> LowerChar(s[i])]

RECURSIVE trimStart(_)
trimStart(s) == IF s # <<>> /\ Head(s) = " " THEN trimStart(Tail(s)) ELSE s

RECURSIVE trimEnd(_)
trimEnd(s) ==
  IF s # <<>> /\ s[Len(s)] = " " THEN trimEnd(SubSeq(s, 1, Len(s) - 1)) ELSE s

\* String.prototype.trim
trim(s) == trimEnd(trimStart(s))

\* String.prototype.includes: k occurs in s as a contiguous run.
includes(s, k) ==
  \E i \in 0..(Len(s) - Len(k)) : SubSeq(s, i + 1, i + Len(k)) = k

\* The decimal digits, as characters.
Digits == <<"0", "1", "2", "3", "4", "5", "6", "7", "8", "9">>
DigitValue(c) == CHOOSE k \in 0..9 : Digits[k + 1] = c
IsDigit(c) == \E k \in 1..10 : Digits[k] = c

\* Primary collation weight of a character: space before punctuation,
\* punctuation before digits, digits before letters, letters in alphabetical
\* order whatever their case.
PrimaryWeight(c) ==
  LET l == LowerChar(c) IN
  CASE l = " " -> -12
    [] l = "-" -> -11
    [] IsDigit(l) -> DigitValue(l) - 10
    [] l = "a" -> 1
    [] l = "b" -> 2
    [] l = "d" -> 4
    [] l = "e" -> 5
    [] l = "i" -> 9
    [] l = "l" -> 12
    [] l = "n" -> 14
    [] l = "t" -> 20
    [] l = "u" -> 21
    [] OTHER -> 27

RECURSIVE PrimaryCompare(_, _)
PrimaryCompare(a, b) ==
  IF a = <<>> /\ b = <<>> THEN 0
  ELSE IF a = <<>> THEN -1
  ELSE IF b = <<>> THEN 1
  ELSE IF PrimaryWeight(Head(a)) < PrimaryWeight(Head(b)) THEN -1
  ELSE IF PrimaryWeight(Head(a)) > PrimaryWeight(Head(b)) THEN 1
  ELSE PrimaryCompare(Tail(a), Tail(b))

\* Tie-break of texts equal at primary strength: at the first position whose
\* case differs the lower-case letter sorts first.
RECURSIVE CaseCompare(_, _)
CaseCompare(a, b) ==
  IF a = <<>> \/ b = <<>> THEN 0
  ELSE IF Head(a) = Head(b) THEN CaseCompare(Tail(a), Tail(b))
  ELSE IF Head(a) = LowerChar(Head(a)) THEN -1
  ELSE 1

\* String.prototype.localeCompare (root collation): negative, zero, positive.
localeCompare(a, b) ==
  LET p == PrimaryCompare(a, b) IN IF p # 0 THEN p ELSE CaseCompare(a, b)

Untitled == <<"U", "n", "t", "i", "t", "l", "e", "d">>

\* ------------------------------------------------------ archive records
\* Native ids of the records of an archive, and the UIDs the durable exclusion
\* set may hold ("X" belongs to no record of the modelled archives).
RawIds == {"A", "B"}
StoreUIDs == RawIds \cup {"X"}
RawTitles == {<<"a">>, <<"B">>}

\* The provider adapter's accessors, in the order buildChatSummaries calls them.
Accessors == <<"getId", "getTitle", "getCreateTime", "getUpdateTime">>
NoThrow == "none"

\* A raw conversation record, seen through the provider adapter's accessors:
\* what they return, which of them (if any) throws for it, and the export
\* format its properties are those of.
RawRecords ==
  [id : RawIds, title : RawTitles, create_time : {1}, update_time : {1},
   shape : {"chatgpt"}, throws : {NoThrow}]

RECURSIVE SeqsUpTo(_, _)
SeqsUpTo(S, n) ==
  IF n = 0 THEN {<<>>}
  ELSE LET shorter == SeqsUpTo(S, n - 1) IN
       shorter \cup {Append(s, x) : s \in {t \in shorter : Len(t) = n - 1}, x \in S}

Archives == SeqsUpTo(RawRecords, MaxRecs)

\* Provider adapter accessors (an external capability).
getId(c) == c.id
getTitle(c) == c.title
getCreateTime(c) == c.create_time
getUpdateTime(c) == c.update_time

\* The accessor throws for the record (it does so on every call).
AccessorThrows(c, accessor) == c.throws = accessor

\* storage.scanExistingConversations: the stored update time (seconds) of each
\* conversation the vault holds a note of, by uid.
NoExisting == [u \in {} |-> 0]

\* Variant of the status label that lets an existing note outrank the Global
\* Exclusion Set.
StatusOf_ExistingFirst(uid, updatedAtSec, ignores, existingMap) ==
  IF uid \in DOMAIN existingMap
  THEN IF existingMap[uid] < updatedAtSec THEN "updated" ELSE "imported"
  ELSE IF uid \in ignores THEN "ignored"
  ELSE "new"

\* buildChatSummaries: the status label of a record.
StatusOf(uid, updatedAtSec, ignores, existingMap) ==
  IF uid \in ignores THEN "ignored"
  ELSE IF uid \in DOMAIN existingMap
  THEN IF existingMap[uid] < updatedAtSec THEN "updated" ELSE "imported"
  ELSE "new"

\* ImportService.buildChatSummaries, the body of its loop: an empty title
\* becomes 'Untitled', seconds become milliseconds, and no keywordsSample is
\* set.
ChatSummaryOf(c, ignores, existingMap) ==
  [uid |-> getId(c),
   title |-> IF getTitle(c) # <<>> THEN getTitle(c) ELSE Untitled,
   createdAt |-> getCreateTime(c) * 1000,
   updatedAt |-> getUpdateTime(c) * 1000,
   status |-> StatusOf(getId(c), getUpdateTime(c), ignores, existingMap),
   keywordsSample |-> <<>>]

\* ImportService.buildChatSummaries: one summary per record, in archive order;
\* a record for which an accessor throws is skipped.
buildChatSummaries(rawConversations, ignores, existingMap) ==
  LET wellFormed == SelectSeq(rawConversations,
                              LAMBDA c : \A k \in 1..Len(Accessors) :
                                           ~AccessorThrows(c, Accessors[k]))
  IN [i \in 1..Len(wellFormed) |-> ChatSummaryOf(wellFormed[i], ignores, existingMap)]

UidsOf(summaries) == {summaries[i].uid : i \in 1..Len(summaries)}

\* -------------------------------------------------- selection container
\* The selection is duck-typed: a Set, or (defensively) an array, a plain
\* object map, or nothing. selRep is its representation, selection its UIDs.
Reps == {"set", "array", "map", "nil"}

\* Variants of ensureSelectionSet: one rebuilds the container even when it is
\* a Set, one rebuilds it as a plain object map.
ensureSelectionSet_Rebuilds(rep, sel) == <<"set", {}>>
ensureSelectionSet_ObjectMap(rep, sel) == <<"map", sel>>

\* ensureSelectionSet: anything that is not a Set is rebuilt as a Set of the
\* array's items or of the object's keys; nothing becomes the empty Set.
ensureSelectionSet(rep, sel) ==
  IF rep = "set" THEN <<"set", sel>>
  ELSE IF rep = "array" THEN <<"set", sel>>
  ELSE IF rep = "map" THEN <<"set", sel>>
  ELSE <<"set", {}>>

\* Variant of the constructor that selects nothing.
InitialSelection_Empty(summaries) == {}

\* Constructor: select every summary's uid.
InitialSelection(summaries) == UidsOf(summaries)

\* Variant of the exclusion pass that leaves the selection as it is.
ExclusionPass_KeepsSelection(sel, gi, summaries) == sel

\* The exclusion pass: every summary whose uid is globally ignored is deleted
\* from the selection.
ExclusionPass(sel, gi, summaries) ==
  sel \ {u \in UidsOf(summaries) : u \in gi}

\* ------------------------------------------------------ filter and sort
SortKeys == {"updatedAt", "createdAt", "title"}
SortDirs == {"asc", "desc"}

\* Variant of the filter callback that compares without lower-casing the
\* summary's texts.
MatchesKeyword_CaseSensitive(s, kw) ==
  \/ includes(s.title, kw)
  \/ includes(s.keywordsSample, kw)

\* The filter callback of applyFilters.
MatchesKeyword(s, kw) ==
  \/ includes(toLowerCase(s.title), kw)
  \/ includes(toLowerCase(s.keywordsSample), kw)

\* The comparator of applyFilters' res.sort.
CompareSummaries(a, b, key, sdir) ==
  LET dir == IF sdir = "asc" THEN 1 ELSE -1 IN
  IF key = "title" THEN localeCompare(a.title, b.title) * dir
  ELSE LET av == IF key = "updatedAt" THEN a.updatedAt ELSE a.createdAt
           bv == IF key = "updatedAt" THEN b.updatedAt ELSE b.createdAt
       IN (av - bv) * dir

\* Array.prototype.sort is stable: an element goes after every element that
\* does not compare greater than it. Lists hold indices into the summaries.
RECURSIVE InsertStable(_, _, _, _, _)
InsertStable(x, sorted, summaries, key, sdir) ==
  IF sorted = <<>> THEN <<x>>
  ELSE IF CompareSummaries(summaries[Head(sorted)], summaries[x], key, sdir) <= 0
       THEN <<Head(sorted)>> \o InsertStable(x, Tail(sorted), summaries, key, sdir)
       ELSE <<x>> \o sorted

RECURSIVE SortStable(_, _, _, _)
SortStable(list, summaries, key, sdir) ==
  IF list = <<>> THEN <<>>
  ELSE InsertStable(list[Len(list)],
                    SortStable(SubSeq(list, 1, Len(list) - 1), summaries, key, sdir),
                    summaries, key, sdir)

\* applyFilters: the visible list, as indices into allSummaries. An empty
\* keyword keeps every summary.
applyFilters(summaries, kw, key, sdir) ==
  LET base == [i \in 1..Len(summaries) |-> i]
      res == IF kw # <<>>
             THEN SelectSeq(base, LAMBDA i : MatchesKeyword(summaries[i], kw))
             ELSE base
  IN SortStable(res, summaries, key, sdir)

\* renderList: one checkbox row per visible summary, at most maxRender of
\* them, each checked iff its uid is selected at render time.
renderList(visible, summaries, sel) ==
  LET n == IF Len(visible) > maxRender THEN maxRender ELSE Len(visible) IN
  [r \in 1..n |-> [idx |-> visible[r], checked |-> summaries[visible[r]].uid \in sel]]

\* updateCounts: the Import button is disabled when nothing is selected.
updateCounts(sel) == Cardinality(sel) = 0

\* Variant of the filter of handleZipFile that keeps every record.
FilterSelected_KeepsAll(rawConversations, selectedSet) == rawConversations

\* The filter of handleZipFile: the records whose adapter id is selected.
FilterSelected(rawConversations, selectedSet) ==
  SelectSeq(rawConversations, LAMBDA c : getId(c) \in selectedSet)

\* ---------------------------------------------------- archive normalizer
\* A property of a parsed JSON object, by what the normalizer can tell of it:
\* absent, falsy (null, false, 0, ""), an array, or another truthy value.
Absent == [kind |-> "absent", items |-> <<>>]
Falsy == [kind |-> "falsy", items |-> <<>>]
Truthy == [kind |-> "truthy", items |-> <<>>]
ArrayOf(items) == [kind |-> "array", items |-> items]

IsTruthy(f) == f.kind \in {"truthy", "array"}

\* A parsed JSON value. Only objects have properties; only arrays have items.
ObjectValue(name, c, d, m, i, ci) ==
  [tag |-> "object", name |-> name, items |-> <<>>, conversations |-> c,
   data |-> d, mapping |-> m, id |-> i, conversation_id |-> ci]
ArrayValue(items) ==
  [tag |-> "array", name |-> "", items |-> items, conversations |-> Absent,
   data |-> Absent, mapping |-> Absent, id |-> Absent, conversation_id |-> Absent]
Primitive(tag) ==
  [tag |-> tag, name |-> "", items |-> <<>>, conversations |-> Absent,
   data |-> Absent, mapping |-> Absent, id |-> Absent, conversation_id |-> Absent]

\* A conversation record as an export holds it.
Conversation(name) == ObjectValue(name, Absent, Absent, Truthy, Truthy, Absent)

\* A line of text: blank, not JSON at all, a lone "[" or "]", or one whole
\* JSON value.
BlankLine == [kind |-> "blank", val |-> Primitive("null")]
JunkLine == [kind |-> "junk", val |-> Primitive("null")]
OpenLine == [kind |-> "open", val |-> Primitive("null")]
CloseLine == [kind |-> "close", val |-> Primitive("null")]
ValueLine(v) == [kind |-> "value", val |-> v]

ParseFailed == [ok |-> FALSE, val |-> Primitive("null")]

\* JSON.parse of lines that hold no blank line: one value, or a bracket pair
\* around nothing or around one JSON text.
RECURSIVE ParseSolid(_)
ParseSolid(ls) ==
  IF Len(ls) = 1
  THEN IF ls[1].kind = "value" THEN [ok |-> TRUE, val |-> ls[1].val] ELSE ParseFailed
  ELSE IF Len(ls) >= 2 /\ ls[1].kind = "open" /\ ls[Len(ls)].kind = "close"
  THEN IF Len(ls) = 2 THEN [ok |-> TRUE, val |-> ArrayValue(<<>>)]
       ELSE LET inner == ParseSolid(SubSeq(ls, 2, Len(ls) - 1)) IN
            IF inner.ok THEN [ok |-> TRUE, val |-> ArrayValue(<<inner.val>>)]
            ELSE ParseFailed
  ELSE ParseFailed

\* JSON.parse of a text: line breaks and blank lines are white space.
JSONparse(text) == ParseSolid(SelectSeq(text, LAMBDA l : l.kind # "blank"))

\* Variant of the resolution that looks at `data` before `conversations`.
ResolveParsed_DataFirst(parsed) ==
  IF parsed.tag = "array" THEN parsed.items
  ELSE IF parsed.data.kind = "array" THEN parsed.data.items
  ELSE IF parsed.conversations.kind = "array" THEN parsed.conversations.items
  ELSE IF IsTruthy(parsed.mapping)
          /\ (IsTruthy(parsed.id) \/ IsTruthy(parsed.conversation_id))
  THEN <<parsed>>
  ELSE <<>>

\* The resolution of a value that parsed as strict JSON.
ResolveParsed(parsed) ==
  IF parsed.tag = "array" THEN parsed.items
  ELSE IF parsed.conversations.kind = "array" THEN parsed.conversations.items
  ELSE IF parsed.data.kind = "array" THEN parsed.data.items
  ELSE IF IsTruthy(parsed.mapping)
          /\ (IsTruthy(parsed.id) \/ IsTruthy(parsed.conversation_id))
  THEN <<parsed>>
  ELSE <<>>

\* Variant of the catch branch that gives up at the first line that fails.
ParseJsonLines_StopsAtBadLine(text) ==
  LET lines == SelectSeq(text, LAMBDA l : l.kind # "blank")
      bad == {i \in 1..Len(lines) : ~JSONparse(<<lines[i]>>).ok}
      upto == IF bad = {} THEN Len(lines)
              ELSE (CHOOSE i \in bad : \A j \in bad : i <= j) - 1
  IN [j \in 1..upto |-> JSONparse(<<lines[j]>>).val]

\* The catch branch: every non-blank line is parsed on its own and the lines
\* that fail are dropped.
ParseJsonLines(text) ==
  LET lines == SelectSeq(text, LAMBDA l : l.kind # "blank")
      good == SelectSeq(lines, LAMBDA l : JSONparse(<<l>>).ok)
  IN [j \in 1..Len(good) |-> JSONparse(<<good[j]>>).val]

\* A zip entry's key: the folders above it and its last segment.
RootDir == ""
ConversationsJson == "conversations.json"
BaseLower(b) == IF b = "Conversations.JSON" THEN ConversationsJson ELSE b

\* /(^|\/)conversations\.json$/i.test(k)
KeyMatches(k) == BaseLower(k.base) = ConversationsJson

\* keys.find: index of the first matching entry, 0 when there is none.
FindConversationsEntry(zip) ==
  LET hits == {i \in 1..Len(zip) : KeyMatches(zip[i].key)} IN
  IF hits = {} THEN 0 ELSE CHOOSE i \in hits : \A j \in hits : i <= j

\* extractRawConversationsFromZip
extractRawConversationsFromZip(zip) ==
  LET at == FindConversationsEntry(zip) IN
  IF at = 0 THEN <<>>
  ELSE LET text == zip[at].text
           parsed == JSONparse(text)
       IN IF parsed.ok THEN ResolveParsed(parsed.val) ELSE ParseJsonLines(text)

\* The zip whose conversations.json is the array of the given records.
ZipOf(records) ==
  <<[key |-> [dir |-> RootDir, base |-> ConversationsJson],
     text |-> <<ValueLine(ArrayValue(records))>>]>>

\* ---------------------------------------------------------------- state
VARIABLES
  zip,            \* handleZipFile: the entries of the archive
  raw,            \* handleZipFile: rawConversations
  allSummaries,   \* modal: the summaries it was opened over
  filtered,       \* modal: the visible list (indices into allSummaries)
  selection,      \* modal: UIDs held by the selection container
  selRep,         \* modal: representation of the selection container
  keyword,        \* modal: trimmed, lower-cased filter text
  sortKey,        \* modal
  sortDir,        \* modal
  rows,           \* modal: rendered checkbox rows
  importDisabled, \* modal: importBtn.disabled
  globalIgnores,  \* modal: its copy of the Global Exclusion Set
  passDone,       \* modal: the exclusion pass has run in this session
  storeIgnores,   \* ProfileStore: state.json's globalIgnores (durable)
  tasks,          \* promises of store operations in flight, in issue order
  manage,         \* the 'Manage excluded' dialog
  pc,             \* handleZipFile: where the run is
  confirmed,      \* handleZipFile: the set passed to onConfirm
  handed,         \* handleZipFile: records handed to conversation processing
  lastOp,         \* the handler that ran last
  threw,          \* a handler ended by throwing
  forcedProvider, \* handleZipFile: the provider the user forced, or NoProvider
  provider,       \* handleZipFile: the provider of the run, once known
  existing,       \* vault: stored update time of each conversation it holds
  events,         \* phases handed to the progress callback, in order
  notice,         \* the last Notice shown
  recorded,       \* storage.addImportedArchive was called for the archive
  reportWritten,  \* writeImportReport has run
  processingFailed, \* conversationProcessor.processRawConversations rejected
  materialised,   \* MaterialisedStore: the record of each uid that has one
  notes,          \* vault: content hash of the note written for each uid
  plan,           \* executor: the plan items of the run, in order
  cursor,         \* executor: the plan item dispatched next
  itemPhase,      \* executor: where it is with the item at the cursor
  cancelRequested, \* executor: a cancel was requested in this run
  report,         \* executor: the report entries of this run
  lastReport,     \* the report of the run before this one
  runNo,          \* how many runs of the archive were started
  runs,           \* handleZipFile calls in progress, per selectZipFile call
  importReport,   \* ImportService.importReport: the run that created it
  stateJson,      \* ProfileStore: state.json (profiles, activeProfile)
  storeOps,       \* ProfileStore: save and setActive calls in flight
  got,            \* MaterialisedStore: what the last get resolved to
  profile,        \* PreImportSelectionModal.profile
  profileFiles,   \* ProfileStore: the stored profile of each name that has one
  batch           \* selectZipFile: the files picked, and the array after the sort

vars == <<zip, raw, allSummaries, filtered, selection, selRep, keyword, sortKey, sortDir,
          rows, importDisabled, globalIgnores, passDone, storeIgnores, tasks,
          manage, pc, confirmed, handed, lastOp, threw, forcedProvider, provider,
          existing, events, notice, recorded, reportWritten, processingFailed,
          materialised, notes, plan, cursor, itemPhase, cancelRequested, report,
          lastReport, runNo, runs, importReport, stateJson, storeOps,
          got, profile, profileFiles, batch>>

execVars == <<materialised, notes, plan, cursor, itemPhase, cancelRequested, report,
              lastReport, runNo>>
overlapVars == <<runs, importReport>>
profileVars == <<stateJson, storeOps>>
sideVars == <<got, profile, profileFiles, batch>>
vaultVars == <<existing, execVars, overlapVars, profileVars, sideVars>>
flowVars == <<forcedProvider, provider, vaultVars, events, notice, recorded,
              reportWritten, processingFailed>>

\* No record, no note and no plan: the vault before any run of the executor.
NoRecords == [u \in {} |-> 0]

ExecutorIdle ==
  /\ materialised = NoRecords
  /\ notes = NoRecords
  /\ plan = <<>>
  /\ cursor = 1
  /\ itemPhase = "idle"
  /\ cancelRequested = FALSE
  /\ report = <<>>
  /\ lastReport = <<>>
  /\ runNo = 0

\* One handleZipFile call at a time: no second selectZipFile call is modelled.
NoOtherRun ==
  /\ runs = <<>>
  /\ importReport = 0

\* readState() of a vault without state.json (lines 528-535).
DefaultState == [profiles |-> {"Default"}, activeProfile |-> "Default"]

StoreIdle ==
  /\ stateJson = DefaultState
  /\ storeOps = <<>>

\* A profile: its name and the UIDs of its include and ignore maps.
Profile(name, include, ignore) == [name |-> name, include |-> include, ignore |-> ignore]

\* getActive() without a profile file (lines 556-560): the empty profile of
\* the active name.
DefaultProfile == Profile("Default", {}, {})

NoProfileFiles == [n \in {} |-> DefaultProfile]

\* What MaterialisedStore.get resolves to when the uid has no record file.
NoRecord == [contentHash |-> 0, updatedAt |-> 0]

\* The last call of the MaterialisedStore: for a put the record it was given,
\* for a get the record it resolved to.
NoCall == [op |-> "none", uid |-> "none", meta |-> NoRecord]

\* The files of a selectZipFile call, as picked and as sorted; none before the
\* file dialog is answered.
NoBatch == [picked |-> <<>>, sorted |-> <<>>]

\* No call of the MaterialisedStore made, no profile stored, no file picked.
SideIdle ==
  /\ got = NoCall
  /\ profile = DefaultProfile
  /\ profileFiles = NoProfileFiles
  /\ batch = NoBatch

runVars == <<zip, raw, allSummaries, pc, confirmed, handed, flowVars>>
viewVars == <<keyword, sortKey, sortDir, filtered>>
storeVars == <<globalIgnores, passDone, storeIgnores, tasks, manage>>

\* A promise of a store operation: what was called, with which UIDs, and
\* whether it is the load of the exclusion set that onOpen issues.
Task(kind, uids) == [kind |-> kind, uids |-> uids, first |-> FALSE]
RefreshTask == Task("refresh", {})
LoadTask == [kind |-> "refresh", uids |-> {}, first |-> TRUE]
ManageClosed == [open |-> FALSE, current |-> {}]

RemoveAt(s, i) == SubSeq(s, 1, i - 1) \o SubSeq(s, i + 1, Len(s))

\* The providers a run may be forced to, and what stands for none.
NoProvider == ""
ForcedProviders == {"chatgpt", "claude"}

\* Notices and error messages.
NoNotice == ""
LoadedNotice == "Loaded chats from archive"
ImportCancelled == "Import cancelled."
NoChatsSelected == "No chats selected. Import cancelled."
InvalidZipStructure == "Invalid ZIP structure"
ProviderMismatch == "Provider Mismatch"
UnknownProvider == "Unknown provider"
AccessorError == "TypeError"
StorageError == "Error"

\* handleZipFile up to the selection modal, of a run forced to ChatGPT over an
\* empty vault: nothing was handed to the progress callback yet.
RunReachedModal ==
  /\ forcedProvider = "chatgpt"
  /\ provider = "chatgpt"
  /\ existing = NoExisting
  /\ ExecutorIdle /\ NoOtherRun /\ StoreIdle /\ SideIdle
  /\ events = <<>>
  /\ notice = LoadedNotice
  /\ recorded = FALSE
  /\ reportWritten = FALSE
  /\ processingFailed = FALSE

\* The modal as handleZipFile opens it: the constructor has selected every
\* uid, onOpen has issued the first load of the exclusion set and has run
\* applyFilters, renderList and updateCounts with the default sort.
ModalOpened(archive, summaries, excluded) ==
  /\ RunReachedModal
  /\ zip = ZipOf(archive)
  /\ raw = extractRawConversationsFromZip(zip)
  /\ allSummaries = summaries
  /\ selection = InitialSelection(summaries)
  /\ selRep = "set"
  /\ keyword = <<>>
  /\ sortKey = "updatedAt"
  /\ sortDir = "desc"
  /\ filtered = applyFilters(summaries, <<>>, "updatedAt", "desc")
  /\ rows = renderList(filtered, allSummaries, selection)
  /\ importDisabled = updateCounts(selection)
  /\ globalIgnores = {}
  /\ passDone = FALSE
  /\ storeIgnores = excluded
  /\ tasks = <<LoadTask>>
  /\ manage = ManageClosed
  /\ pc = "modal"
  /\ confirmed = {}
  /\ handed = <<>>
  /\ lastOp = "open"
  /\ threw = FALSE

\* Exclusion sets a modal session starts over: none, one that holds a UID of
\* no record, one that may hold every record's UID.
SessionExcluded == {{}, {"B", "X"}, {"A", "B"}}

Init == \E archive \in Archives, excluded \in SessionExcluded :
          ModalOpened(archive, buildChatSummaries(archive, excluded, NoExisting), excluded)

\* Exclusion sets a session of the Global Exclude controls starts over; the
\* controls themselves reach the others.
ExcludeStartSets == {{}, {"B", "X"}}

\* Archives a session of the Global Exclude controls is opened over: the
\* controls act on UIDs, so two records, which give every combination of the
\* two UIDs, are enough, and the titles play no part.
ExcludeArchives ==
  {a \in SeqsUpTo(RawRecords, 2) : \A i \in 1..Len(a) : a[i].title = <<"a">>}

\* Sessions of the Global Exclude controls.
InitExclude ==
  \E archive \in ExcludeArchives,
     excluded \in ExcludeStartSets :
       ModalOpened(archive, buildChatSummaries(archive, excluded, NoExisting), excluded)

\* The user can act on the selection modal: it is open and not covered by the
\* 'Manage excluded' dialog.
Interactive == pc = "modal" /\ ~manage.open

\* A handler that calls Set methods on the selection without normalising it
\* first throws a TypeError unless the container is a Set.
Throws(op) ==
  /\ threw' = TRUE
  /\ lastOp' = op
  /\ UNCHANGED <<runVars, viewVars, storeVars, selection, selRep, rows, importDisabled>>

\* renderList and updateCounts of a handler that left the selection `sel`.
Rendered(rep, sel, visible) ==
  LET norm == ensureSelectionSet(rep, sel) IN
  /\ selRep' = norm[1]
  /\ selection' = norm[2]
  /\ rows' = renderList(visible, allSummaries, norm[2])
  /\ importDisabled' = updateCounts(norm[2])

\* refreshGlobalIgnores, when listGlobalIgnores resolves: the modal's copy of
\* the exclusion set is replaced; the load issued by onOpen goes on to the
\* exclusion pass, once; the list and the counts are redrawn.
refreshGlobalIgnores(i) ==
  /\ i \in 1..Len(tasks)
  /\ tasks[i].kind = "refresh"
  /\ tasks' = RemoveAt(tasks, i)
  /\ globalIgnores' = storeIgnores
  /\ passDone' = (passDone \/ tasks[i].first)
  /\ Rendered(selRep,
              IF tasks[i].first
              THEN ExclusionPass(selection, storeIgnores, allSummaries)
              ELSE selection,
              filtered)
  /\ lastOp' = IF tasks[i].first THEN "load" ELSE "refresh"
  /\ UNCHANGED <<runVars, viewVars, storeIgnores, manage, threw>>

\* Filter input onChange.
FilterInput(v) ==
  /\ Interactive
  /\ keyword' = toLowerCase(trim(v))
  /\ filtered' = applyFilters(allSummaries, keyword', sortKey, sortDir)
  /\ Rendered(selRep, selection, filtered')
  /\ lastOp' = "filter"
  /\ UNCHANGED <<runVars, sortKey, sortDir, storeVars, threw>>

\* Sort select onchange: applyFilters and renderList, no updateCounts.
SortChange(k, d) ==
  /\ Interactive
  /\ <<k, d>> # <<sortKey, sortDir>>
  /\ sortKey' = k
  /\ sortDir' = d
  /\ filtered' = applyFilters(allSummaries, keyword, k, d)
  /\ LET norm == ensureSelectionSet(selRep, selection) IN
       /\ selRep' = norm[1]
       /\ selection' = norm[2]
       /\ rows' = renderList(filtered', allSummaries, norm[2])
  /\ lastOp' = "sort"
  /\ UNCHANGED <<runVars, keyword, importDisabled, storeVars, threw>>

VisibleUids == {allSummaries[filtered[r]].uid : r \in 1..Len(filtered)}

\* Variant of 'Select all in view' that adds every summary's uid.
SelectAllInView_AllChats ==
  /\ Interactive
  /\ Rendered(selRep, selection \cup UidsOf(allSummaries), filtered)
  /\ lastOp' = "selectInView"
  /\ UNCHANGED <<runVars, viewVars, storeVars, threw>>

\* 'Select all in view'.
SelectAllInView ==
  /\ Interactive
  /\ IF selRep # "set" /\ filtered # <<>> THEN Throws("selectInView")
     ELSE /\ Rendered(selRep, selection \cup VisibleUids, filtered)
          /\ lastOp' = "selectInView"
          /\ UNCHANGED <<runVars, viewVars, storeVars, threw>>

\* 'Clear selection in view'.
ClearInView ==
  /\ Interactive
  /\ IF selRep # "set" /\ filtered # <<>> THEN Throws("clearInView")
     ELSE /\ Rendered(selRep, selection \ VisibleUids, filtered)
          /\ lastOp' = "clearInView"
          /\ UNCHANGED <<runVars, viewVars, storeVars, threw>>

\* Variant of 'Select all (all chats)' that leaves out the UIDs of the modal's
\* copy of the exclusion set.
SelectAllGlobal_SkipsExcluded ==
  /\ Interactive
  /\ Rendered("set", UidsOf(allSummaries) \ globalIgnores, filtered)
  /\ lastOp' = "selectAll"
  /\ UNCHANGED <<runVars, viewVars, storeVars, threw>>

\* 'Select all (all chats)'.
SelectAllGlobal ==
  /\ Interactive
  /\ Rendered("set", UidsOf(allSummaries), filtered)
  /\ lastOp' = "selectAll"
  /\ UNCHANGED <<runVars, viewVars, storeVars, threw>>

\* Variant of 'Clear all' that clears the visible summaries only.
ClearAll_InView ==
  /\ Interactive
  /\ Rendered("set", selection \ VisibleUids, filtered)
  /\ lastOp' = "clearAll"
  /\ UNCHANGED <<runVars, viewVars, storeVars, threw>>

\* 'Clear all'.
ClearAll ==
  /\ Interactive
  /\ Rendered("set", {}, filtered)
  /\ lastOp' = "clearAll"
  /\ UNCHANGED <<runVars, viewVars, storeVars, threw>>

\* A rendered row's checkbox onchange: the box flips, the row's uid is added
\* or deleted accordingly, the counts are updated, the list is not redrawn.
RowToggle(r) ==
  /\ Interactive
  /\ r \in 1..Len(rows)
  /\ IF selRep # "set" THEN Throws("toggle")
     ELSE LET uid == allSummaries[rows[r].idx].uid
              sel == IF rows[r].checked THEN selection \ {uid}
                     ELSE selection \cup {uid}
              norm == ensureSelectionSet(selRep, sel)
          IN /\ rows' = [rows EXCEPT ![r].checked = ~rows[r].checked]
             /\ selRep' = norm[1]
             /\ selection' = norm[2]
             /\ importDisabled' = updateCounts(norm[2])
             /\ lastOp' = "toggle"
             /\ UNCHANGED <<runVars, viewVars, storeVars, threw>>

\* 'Import selected': onConfirm gets a copy of the selection and the modal
\* closes; handleZipFile resumes, filters the raw records to the selected
\* set, and returns with 'No chats selected' when none is left.
ImportSelected ==
  /\ Interactive
  /\ ~importDisabled
  /\ IF selRep = "map" THEN Throws("import")
     ELSE LET selectedSet == IF selRep = "nil" THEN {} ELSE selection
              filteredRaw == FilterSelected(raw, selectedSet)
              getIdThrows == \E i \in 1..Len(raw) : AccessorThrows(raw[i], "getId")
          IN /\ confirmed' = selectedSet
             /\ handed' = IF getIdThrows THEN <<>> ELSE filteredRaw
             /\ pc' = IF getIdThrows THEN "failed"
                      ELSE IF Len(filteredRaw) = 0 THEN "noSelection"
                      ELSE "processing"
             /\ notice' = IF getIdThrows THEN AccessorError
                          ELSE IF Len(filteredRaw) = 0 THEN NoChatsSelected
                          ELSE notice
             /\ reportWritten' = (getIdThrows \/ Len(filteredRaw) = 0)
             /\ lastOp' = "import"
             /\ UNCHANGED <<zip, raw, allSummaries, viewVars, storeVars, selection,
                            selRep, rows, importDisabled, threw, forcedProvider,
                            provider, vaultVars, events, recorded, processingFailed>>

\* 'Cancel' (or dismissal): the modal closes and onConfirm is never called.
CancelModal ==
  /\ Interactive
  /\ pc' = "dismissed"
  /\ lastOp' = "cancel"
  /\ UNCHANGED <<zip, raw, allSummaries, confirmed, handed, viewVars, storeVars,
                 selection, selRep, rows, importDisabled, threw, flowVars>>

\* Texts typed into the filter box during a modal session.
SessionTyped == {<<>>, <<" ">>, <<"a">>, <<"B", " ">>}

\* A modal session: filter, sort, selection and confirmation.
Next ==
  \/ \E i \in 1..Len(tasks) : refreshGlobalIgnores(i)
  \/ \E v \in SessionTyped : FilterInput(v)
  \/ \E k \in SortKeys, d \in SortDirs : SortChange(k, d)
  \/ SelectAllInView
  \/ ClearInView
  \/ SelectAllGlobal
  \/ ClearAll
  \/ \E r \in 1..Len(rows) : RowToggle(r)
  \/ ImportSelected
  \/ CancelModal

Spec == Init /\ [][Next]_vars

\* ----------------------------------------------- claims: modal session
\* Indices of the archive records whose adapter id is in the confirmed set.
ConfirmedIndices == {i \in 1..Len(raw) : getId(raw[i]) \in confirmed}

\* C1: the records handed to conversation processing are exactly the archive
\* records whose adapter id is in the selection confirmed in the modal, in
\* archive order: none with an unselected UID, every one with a selected UID;
\* and the confirmed set is the selection at the time of 'Import selected'.
HandedExactlyConfirmed ==
  /\ [](pc \in {"processing", "noSelection"} =>
         /\ Len(handed) = Cardinality(ConfirmedIndices)
         /\ \A j \in 1..Len(handed) :
              \E i \in ConfirmedIndices :
                /\ Cardinality({m \in ConfirmedIndices : m < i}) = j - 1
                /\ handed[j] = raw[i]
         /\ (pc = "processing") = (ConfirmedIndices # {}))
  /\ [][lastOp' = "import" => confirmed' = selection]_vars

\* A selected record was handed on while an unselected one was left out.
HandedSomeNotAll ==
  /\ pc = "processing"
  /\ lastOp = "import"
  /\ Len(handed) = 1
  /\ Len(raw) = 2
  /\ \E i \in 1..Len(raw) : getId(raw[i]) \notin confirmed

FilterSortKeepSelection ==
  [][lastOp' \in {"filter", "sort"} =>
       \A u \in StoreUIDs : (u \in selection') = (u \in selection)]_vars

\* A filter hides a selected summary, which stays selected.
FilteredOutStillSelected ==
  /\ lastOp = "filter"
  /\ keyword # <<>>
  /\ \E i \in 1..Len(allSummaries) :
       /\ \A r \in 1..Len(filtered) : allSummaries[filtered[r]].uid # allSummaries[i].uid
       /\ allSummaries[i].uid \in selection

\* UIDs of the summaries that match the current keyword filter.
MatchingUids ==
  {allSummaries[i].uid :
     i \in {j \in 1..Len(allSummaries) :
              \/ keyword = <<>>
              \/ includes(toLowerCase(allSummaries[j].title), keyword)
              \/ includes(toLowerCase(allSummaries[j].keywordsSample), keyword)}}

\* C7: with V the UIDs matching the current filter, 'Select all in view' makes
\* the selection old \cup V and 'Clear selection in view' makes it old \ V, so
\* the membership of every UID outside V is unchanged.
InViewBulkScope ==
  [][/\ lastOp' = "selectInView" => selection' = selection \cup MatchingUids
     /\ lastOp' = "clearInView" => selection' = selection \ MatchingUids
     /\ lastOp' \in {"selectInView", "clearInView"} =>
          \A u \in StoreUIDs \ MatchingUids : (u \in selection') = (u \in selection)]_vars

\* 'Select all in view' under a filter that hides an unselected summary.
SelectedInViewOnly ==
  /\ lastOp = "selectInView"
  /\ keyword # <<>>
  /\ MatchingUids # {}
  /\ MatchingUids \subseteq selection
  /\ UidsOf(allSummaries) \ selection # {}

\* C8: 'Select all (all chats)' makes the selection the set of all UIDs of the
\* summary list and 'Clear all' makes it empty, whatever the filter and the
\* selection before.
GlobalBulkScope ==
  [][/\ lastOp' = "selectAll" => selection' = UidsOf(allSummaries)
     /\ lastOp' = "clearAll" => selection' = {}]_vars

\* 'Clear all' while a filter hides some summaries.
ClearedAllUnderFilter ==
  /\ lastOp = "clearAll"
  /\ keyword # <<>>
  /\ Len(filtered) < Len(allSummaries)
  /\ selection = {}

\* C9: no selection operation throws (the container every handler finds is a
\* Set), and no step changes the membership of a UID that is not in the
\* summary universe.
SelectionOperationsNeverThrow ==
  /\ [](~threw /\ selRep = "set")
  /\ [][\A u \in StoreUIDs \ UidsOf(allSummaries) :
          (u \in selection') = (u \in selection)]_vars

\* A row toggle has run on the container without throwing.
ToggledWithoutThrow ==
  /\ lastOp = "toggle"
  /\ ~threw
  /\ selRep = "set"
  /\ \E r \in 1..Len(rows) :
       /\ ~rows[r].checked
       /\ allSummaries[rows[r].idx].uid \notin selection
  /\ selection # {}

\* ------------------------------------------------- filter and sort alone
\* Summaries the modal may be constructed over: titles in either case,
\* with or without sampled keyword text, created and updated in either order.
FilterTexts ==
  {[title |-> <<"a">>, keywordsSample |-> <<>>],
   [title |-> <<"a">>, keywordsSample |-> <<"B">>],
   [title |-> <<"A", "b">>, keywordsSample |-> <<>>],
   [title |-> <<"b">>, keywordsSample |-> <<>>]}
FilterTimes == {<<1000, 2000>>, <<2000, 1000>>}
FilterShapes == FilterTexts \X FilterTimes

SummariesOf(shapes) ==
  [i \in 1..Len(shapes) |->
     [uid |-> IF i % 2 = 1 THEN "A" ELSE "B",
      title |-> shapes[i][1].title,
      createdAt |-> shapes[i][2][1],
      updatedAt |-> shapes[i][2][2],
      status |-> "new",
      keywordsSample |-> shapes[i][1].keywordsSample]]

\* Texts typed into the filter box: blank, padded, in either case.
FilterTyped ==
  {<<>>, <<" ">>, <<"a">>, <<"B">>, <<"B", " ">>, <<" ", "a">>, <<"a", "B">>,
   <<"b", "a">>}

\* The modal constructed over a given summary list; handleZipFile's records
\* play no part.
InitFilter ==
  \E shapes \in SeqsUpTo(FilterShapes, MaxSumm) :
    ModalOpened(<<>>, SummariesOf(shapes), {})

NextFilter ==
  \/ \E i \in 1..Len(tasks) : refreshGlobalIgnores(i)
  \/ \E v \in FilterTyped : FilterInput(v)
  \/ \E k \in SortKeys, d \in SortDirs : SortChange(k, d)

SpecFilter == InitFilter /\ [][NextFilter]_vars

\* ------------------------------------------- claims: filter and sort
\* The typed text without its leading and trailing spaces.
TrimOf(v) ==
  LET solid == {i \in 1..Len(v) : v[i] # " "} IN
  IF solid = {} THEN <<>>
  ELSE SubSeq(v, CHOOSE i \in solid : \A j \in solid : i <= j,
                 CHOOSE i \in solid : \A j \in solid : i >= j)

\* k occurs in s when case is ignored.
ContainsIgnoringCase(s, k) ==
  \E off \in 0..(Len(s) - Len(k)) :
    \A j \in 1..Len(k) : LowerChar(s[off + j]) = LowerChar(k[j])

ShouldShow(s, k) ==
  \/ k = <<>>
  \/ ContainsIgnoringCase(s.title, k)
  \/ ContainsIgnoringCase(s.keywordsSample, k)

ShownIndices(list) == {list[r] : r \in 1..Len(list)}

\* a may stand before b under the sort key and direction.
InSortOrder(a, b, key, sdir) ==
  LET c == IF key = "title" THEN localeCompare(a.title, b.title)
           ELSE IF key = "updatedAt" THEN a.updatedAt - b.updatedAt
           ELSE a.createdAt - b.createdAt
  IN IF sdir = "asc" THEN c <= 0 ELSE c >= 0

\* C6: after applyFilters with keyword k the visible list holds exactly the
\* summaries whose title or keywordsSample contains k, case ignored (all of
\* them when k is empty after trimming), each once, ordered by the current
\* sort key and direction; a sort change keeps the same summaries visible.
VisibleListFilteredAndSorted ==
  [][/\ \A v \in FilterTyped :
          (lastOp' = "filter" /\ keyword' = toLowerCase(trim(v))) =>
            ShownIndices(filtered') =
              {i \in 1..Len(allSummaries) : ShouldShow(allSummaries[i], TrimOf(v))}
     /\ lastOp' = "sort" => ShownIndices(filtered') = ShownIndices(filtered)
     /\ lastOp' \in {"filter", "sort"} =>
          /\ Cardinality(ShownIndices(filtered')) = Len(filtered')
          /\ \A r1, r2 \in 1..Len(filtered') :
               r1 < r2 => InSortOrder(allSummaries[filtered'[r1]],
                                      allSummaries[filtered'[r2]], sortKey', sortDir')]_vars

\* The keyword b shows a summary titled "a" by its sampled keywords "B" and
\* hides the other summary, titled "a" too, which has none.
FilteredBySampleOnly ==
  /\ lastOp = "filter"
  /\ keyword = <<"b">>
  /\ Len(allSummaries) = 2
  /\ Len(filtered) = 1
  /\ allSummaries[filtered[1]].title = <<"a">>
  /\ allSummaries[filtered[1]].keywordsSample = <<"B">>

\* -------------------------------------------- archive normalizer alone
\* Values a conversations.json may parse to.
PropertyValues == {Absent, Falsy, Truthy}
TopValues ==
  {Primitive("null"), Primitive("string"), ArrayValue(<<>>),
   ArrayValue(<<Conversation("r1")>>),
   ArrayValue(<<Conversation("r1"), Conversation("r2")>>)}
  \cup {ObjectValue("top", c, d, m, i, ci) :
          c \in {Absent, Truthy, ArrayOf(<<>>), ArrayOf(<<Conversation("c1")>>)},
          d \in {Absent, Truthy, ArrayOf(<<>>), ArrayOf(<<Conversation("d1")>>)},
          m \in PropertyValues, i \in PropertyValues, ci \in PropertyValues}

\* Texts of several lines, and keys of zip entries.
ShortLines ==
  {BlankLine, JunkLine, OpenLine, CloseLine, ValueLine(Conversation("r1")),
   ValueLine(Primitive("string"))}
ShortTexts == {<<JunkLine>>, <<ValueLine(ArrayValue(<<Conversation("r1")>>))>>,
               <<ValueLine(ArrayValue(<<Conversation("r2")>>))>>}
Keys == [dir : {RootDir, "sub/"},
         base : {ConversationsJson, "Conversations.JSON", "myconversations.json",
                 "chat.html"}]

ParseZips ==
  {<<[key |-> [dir |-> RootDir, base |-> ConversationsJson], text |-> t]>> :
     t \in {<<ValueLine(v)>> : v \in TopValues} \cup SeqsUpTo(ShortLines, MaxLines)}
  \cup SeqsUpTo([key : Keys, text : ShortTexts], MaxEntries)

\* handleZipFile has loaded a zip and is about to extract its records.
InitParse ==
  /\ zip \in ParseZips
  /\ raw = <<>>
  /\ pc = "extract"
  /\ allSummaries = <<>>
  /\ filtered = <<>>
  /\ selection = {}
  /\ selRep = "set"
  /\ keyword = <<>>
  /\ sortKey = "updatedAt"
  /\ sortDir = "desc"
  /\ rows = <<>>
  /\ importDisabled = TRUE
  /\ globalIgnores = {}
  /\ passDone = FALSE
  /\ storeIgnores = {}
  /\ tasks = <<>>
  /\ manage = ManageClosed
  /\ confirmed = {}
  /\ handed = <<>>
  /\ lastOp = "start"
  /\ threw = FALSE
  /\ forcedProvider = NoProvider
  /\ provider = NoProvider
  /\ existing = NoExisting
  /\ ExecutorIdle /\ NoOtherRun /\ StoreIdle /\ SideIdle
  /\ events = <<>>
  /\ notice = NoNotice
  /\ recorded = FALSE
  /\ reportWritten = FALSE
  /\ processingFailed = FALSE

\* handleZipFile: rawConversations = await extractRawConversationsFromZip(zip)
ExtractRawConversations ==
  /\ pc = "extract"
  /\ raw' = extractRawConversationsFromZip(zip)
  /\ pc' = "extracted"
  /\ lastOp' = "extract"
  /\ UNCHANGED <<zip, allSummaries, confirmed, handed, viewVars, storeVars, selection,
                 selRep, rows, importDisabled, threw, flowVars>>

NextParse == ExtractRawConversations

SpecParse == InitParse /\ [][NextParse]_vars

\* --------------------------------------------- claims: archive normalizer
\* The conversations.json of the zip parsed as strict JSON.
StrictJson ==
  /\ FindConversationsEntry(zip) # 0
  /\ JSONparse(zip[FindConversationsEntry(zip)].text).ok

ParsedValue == JSONparse(zip[FindConversationsEntry(zip)].text).val

\* The record sequence of a parsed value v, the single-object fallback being
\* decided by `single`.
ResolvesFirstMatch(v, single) ==
  /\ v.tag = "array" => raw = v.items
  /\ (v.tag # "array" /\ v.conversations.kind = "array") =>
       raw = v.conversations.items
  /\ (v.tag # "array" /\ v.conversations.kind # "array" /\ v.data.kind = "array") =>
       raw = v.data.items
  /\ (v.tag # "array" /\ v.conversations.kind # "array" /\ v.data.kind # "array") =>
       raw = IF single THEN <<v>> ELSE <<>>

\* C10 as stated: for content that parses as strict JSON the record sequence
\* is, first match wins, a top-level array; else an array-valued
\* `conversations`; else an array-valued `data`; else the object itself, alone,
\* when it has `mapping` and (`id` or `conversation_id`); else empty.
StrictJsonResolutionByPresence ==
  (pc = "extracted" /\ StrictJson) =>
    ResolvesFirstMatch(ParsedValue,
                       /\ ParsedValue.mapping.kind # "absent"
                       /\ \/ ParsedValue.id.kind # "absent"
                          \/ ParsedValue.conversation_id.kind # "absent")

\* C10 amended: the same resolution, the single-object fallback applying when
\* `mapping` is truthy and `id` or `conversation_id` is truthy (a property
\* that is present but null, false, 0 or "" does not count).
StrictJsonResolutionByTruthiness ==
  (pc = "extracted" /\ StrictJson) =>
    ResolvesFirstMatch(ParsedValue,
                       /\ ParsedValue.mapping.kind \in {"truthy", "array"}
                       /\ \/ ParsedValue.id.kind \in {"truthy", "array"}
                          \/ ParsedValue.conversation_id.kind \in {"truthy", "array"})

\* An object whose `conversations` is not an array and whose `data` is one,
\* though it also has `mapping` and `id`: the `data` array is the result.
ResolvedByDataField ==
  /\ pc = "extracted"
  /\ StrictJson
  /\ ParsedValue.tag = "object"
  /\ ParsedValue.conversations = Truthy
  /\ ParsedValue.mapping = Truthy
  /\ ParsedValue.id = Truthy
  /\ raw = <<Conversation("d1")>>

\* The text of the conversations.json found, and the positions of its lines
\* that are one whole JSON value each.
FoundText == zip[FindConversationsEntry(zip)].text
LinesThatParseAlone == {i \in 1..Len(FoundText) : FoundText[i].kind = "value"}

\* C11: when the strict parse of the content fails, the record sequence is
\* exactly the values of the non-blank lines that parse as JSON on their own,
\* in line order: a failing line is dropped, nothing is added, and the result
\* is empty when no line parses.
JsonLinesFallbackKeepsParsingLines ==
  (pc = "extracted" /\ FindConversationsEntry(zip) # 0 /\ ~JSONparse(FoundText).ok) =>
    /\ Len(raw) = Cardinality(LinesThatParseAlone)
    /\ \A i \in LinesThatParseAlone :
         raw[Cardinality({m \in LinesThatParseAlone : m <= i})] = FoundText[i].val

\* Two lines that parse, with a line between them that does not: the result
\* is the two values, in line order.
DroppedLineBetweenTwoRecords ==
  /\ pc = "extracted"
  /\ FindConversationsEntry(zip) # 0
  /\ FoundText = <<ValueLine(Conversation("r1")), JunkLine, ValueLine(Primitive("string"))>>
  /\ raw = <<Conversation("r1"), Primitive("string")>>

\* ------------------------------------------- Global Exclude controls
\* Variant of 'Add selected to exclude' that also deselects what it excludes.
AddSelectedToExclude_Deselects ==
  /\ Interactive
  /\ Len(tasks) < MaxTasks
  /\ tasks' = Append(tasks, Task("add", selection))
  /\ Rendered(selRep, {}, filtered)
  /\ lastOp' = "addExclude"
  /\ UNCHANGED <<runVars, viewVars, globalIgnores, passDone, storeIgnores, manage, threw>>

\* 'Add selected to exclude': the selected UIDs are read and
\* addGlobalIgnores is issued; the handler continues when it resolves.
AddSelectedToExclude ==
  /\ Interactive
  /\ Len(tasks) < MaxTasks
  /\ IF selRep # "set" THEN Throws("addExclude")
     ELSE /\ tasks' = Append(tasks, Task("add", selection))
          /\ lastOp' = "addExclude"
          /\ UNCHANGED <<runVars, viewVars, selection, selRep, rows, importDisabled,
                         globalIgnores, passDone, storeIgnores, manage, threw>>

\* Variant of 'Clear exclude' that keeps the UIDs of no record of the archive.
ClearExclude_KeepsForeign ==
  /\ Interactive
  /\ Len(tasks) < MaxTasks
  /\ tasks' = Append(tasks, Task("set", storeIgnores \ UidsOf(allSummaries)))
  /\ lastOp' = "clearExclude"
  /\ UNCHANGED <<runVars, viewVars, selection, selRep, rows, importDisabled,
                 globalIgnores, passDone, storeIgnores, manage, threw>>

\* 'Clear exclude': setGlobalIgnores({}) is issued.
ClearExclude ==
  /\ Interactive
  /\ Len(tasks) < MaxTasks
  /\ tasks' = Append(tasks, Task("set", {}))
  /\ lastOp' = "clearExclude"
  /\ UNCHANGED <<runVars, viewVars, selection, selRep, rows, importDisabled,
                 globalIgnores, passDone, storeIgnores, manage, threw>>

\* Variant of addGlobalIgnores that stores the given UIDs alone.
addGlobalIgnores_Replaces(i) ==
  /\ i \in 1..Len(tasks)
  /\ tasks[i].kind = "add"
  /\ storeIgnores' = tasks[i].uids
  /\ tasks' = [tasks EXCEPT ![i] = RefreshTask]
  /\ lastOp' = "addResolved"
  /\ UNCHANGED <<runVars, viewVars, selection, selRep, rows, importDisabled,
                 globalIgnores, passDone, manage, threw>>

\* ProfileStore.addGlobalIgnores resolves: the stored set is the union of the
\* old set and the given UIDs; the handler goes on to refreshGlobalIgnores.
addGlobalIgnores(i) ==
  /\ i \in 1..Len(tasks)
  /\ tasks[i].kind = "add"
  /\ storeIgnores' = storeIgnores \cup tasks[i].uids
  /\ tasks' = [tasks EXCEPT ![i] = RefreshTask]
  /\ lastOp' = "addResolved"
  /\ UNCHANGED <<runVars, viewVars, selection, selRep, rows, importDisabled,
                 globalIgnores, passDone, manage, threw>>

\* ProfileStore.setGlobalIgnores resolves: the stored set is replaced; the
\* handler goes on to refreshGlobalIgnores.
setGlobalIgnores(i) ==
  /\ i \in 1..Len(tasks)
  /\ tasks[i].kind = "set"
  /\ storeIgnores' = tasks[i].uids
  /\ tasks' = [tasks EXCEPT ![i] = RefreshTask]
  /\ lastOp' = "setResolved"
  /\ UNCHANGED <<runVars, viewVars, selection, selRep, rows, importDisabled,
                 globalIgnores, passDone, manage, threw>>

\* 'Manage excluded...': listGlobalIgnores is issued.
ManageExcluded ==
  /\ Interactive
  /\ Len(tasks) < MaxTasks
  /\ \A i \in 1..Len(tasks) : tasks[i].kind # "list"
  /\ tasks' = Append(tasks, Task("list", {}))
  /\ lastOp' = "manage"
  /\ UNCHANGED <<runVars, viewVars, selection, selRep, rows, importDisabled,
                 globalIgnores, passDone, storeIgnores, manage, threw>>

\* listGlobalIgnores resolves for 'Manage excluded...': the dialog opens over
\* the set just read, every row checked.
ManageOpened(i) ==
  /\ i \in 1..Len(tasks)
  /\ tasks[i].kind = "list"
  /\ tasks' = RemoveAt(tasks, i)
  /\ manage' = [open |-> TRUE, current |-> storeIgnores]
  /\ lastOp' = "manageOpened"
  /\ UNCHANGED <<runVars, viewVars, selection, selRep, rows, importDisabled,
                 globalIgnores, passDone, storeIgnores, threw>>

\* Variant of 'Save' that asks the store to hold what it holds now, less the
\* UIDs the user unchecked.
ManageSave_Merges(keep) ==
  /\ manage.open
  /\ keep \subseteq manage.current
  /\ Len(tasks) < MaxTasks
  /\ tasks' = Append(tasks, Task("set", storeIgnores \ (manage.current \ keep)))
  /\ manage' = ManageClosed
  /\ lastOp' = "manageSave"
  /\ UNCHANGED <<runVars, viewVars, selection, selRep, rows, importDisabled,
                 globalIgnores, passDone, storeIgnores, threw>>

\* ManageGlobalExcludeModal 'Save': keep is what the user left checked of the
\* set the dialog was opened over; setGlobalIgnores(keep) is issued.
ManageSave(keep) ==
  /\ manage.open
  /\ keep \subseteq manage.current
  /\ Len(tasks) < MaxTasks
  /\ tasks' = Append(tasks, Task("set", keep))
  /\ manage' = ManageClosed
  /\ lastOp' = "manageSave"
  /\ UNCHANGED <<runVars, viewVars, selection, selRep, rows, importDisabled,
                 globalIgnores, passDone, storeIgnores, threw>>

\* ManageGlobalExcludeModal 'Cancel'.
ManageCancel ==
  /\ manage.open
  /\ manage' = ManageClosed
  /\ lastOp' = "manageCancel"
  /\ UNCHANGED <<runVars, viewVars, selection, selRep, rows, importDisabled,
                 globalIgnores, passDone, storeIgnores, tasks, threw>>

\* A modal session: selection and the Global Exclude controls.
NextExclude ==
  \/ \E i \in 1..Len(tasks) : refreshGlobalIgnores(i)
  \/ \E i \in 1..Len(tasks) : addGlobalIgnores(i)
  \/ \E i \in 1..Len(tasks) : setGlobalIgnores(i)
  \/ \E i \in 1..Len(tasks) : ManageOpened(i)
  \/ SelectAllGlobal
  \/ ClearAll
  \/ \E r \in 1..Len(rows) : RowToggle(r)
  \/ AddSelectedToExclude
  \/ ClearExclude
  \/ ManageExcluded
  \/ \E keep \in SUBSET StoreUIDs : ManageSave(keep)
  \/ ManageCancel
  \/ ImportSelected
  \/ CancelModal

SpecExclude == InitExclude /\ [][NextExclude]_vars

MaxEvents == 5

UsersJson == "users.json"
ProjectsJson == "projects.json"

\* fileNames.includes(name): an entry of exactly that name, at the root.
HasFile(files, name) ==
  \E i \in 1..Len(files) : files[i].key = [dir |-> RootDir, base |-> name]

ValidZip == "ok"

\* validateZipFile: the message of the error it throws, or ValidZip.
validateZipFile(files, forced) ==
  LET hasConversationsJson == HasFile(files, ConversationsJson)
      hasUsersJson == HasFile(files, UsersJson)
      hasProjectsJson == HasFile(files, ProjectsJson)
      isChatGPTFormat == hasConversationsJson /\ ~hasUsersJson /\ ~hasProjectsJson
      isClaudeFormat == hasConversationsJson /\ hasUsersJson
  IN IF forced # NoProvider
     THEN IF hasConversationsJson THEN ValidZip ELSE InvalidZipStructure
     ELSE IF isChatGPTFormat \/ isClaudeFormat THEN ValidZip ELSE InvalidZipStructure

\* validateProviderMatch: the content's shape contradicts the forced provider.
isChatGPT(c) == c.shape \in {"chatgpt", "both"}
isClaude(c) == c.shape \in {"claude", "both"}

validateProviderMatch(rawConversations, forced) ==
  /\ Len(rawConversations) # 0
  /\ LET firstConversation == rawConversations[1] IN
       \/ forced = "chatgpt" /\ ~isChatGPT(firstConversation)
       \/ forced = "claude" /\ ~isClaude(firstConversation)

\* providerRegistry.detectProvider: the first adapter that recognises the
\* records, 'unknown' when none does or there is no record.
detectProvider(rawConversations) ==
  IF Len(rawConversations) = 0 THEN "unknown"
  ELSE IF isChatGPT(rawConversations[1]) THEN "chatgpt"
  ELSE IF isClaude(rawConversations[1]) THEN "claude"
  ELSE "unknown"

\* Records of the archives of whole runs: ChatGPT records, a Claude record, a
\* record whose id cannot be read, and one whose update time cannot be read.
RunRecords ==
  {[id |-> "A", title |-> <<"a">>, create_time |-> 1, update_time |-> 1,
    shape |-> "chatgpt", throws |-> NoThrow],
   [id |-> "B", title |-> <<"a">>, create_time |-> 1, update_time |-> 1,
    shape |-> "claude", throws |-> NoThrow],
   [id |-> "B", title |-> <<"a">>, create_time |-> 1, update_time |-> 1,
    shape |-> "chatgpt", throws |-> "getId"],
   [id |-> "B", title |-> <<"a">>, create_time |-> 1, update_time |-> 1,
    shape |-> "chatgpt", throws |-> "getUpdateTime"]}
RunArchives == SeqsUpTo(RunRecords, MaxRecs)

Entry(dir, base, text) == [key |-> [dir |-> dir, base |-> base], text |-> text]
TextOf(records) == <<ValueLine(ArrayValue(records))>>

\* Archives handed to handleZipFile: conversations.json alone or beside
\* users.json; beside projects.json; in a folder; in other letter case; not
\* JSON at all; missing.
RunZips ==
  {ZipOf(a) : a \in RunArchives}
  \cup {<<Entry(RootDir, ConversationsJson, TextOf(a)),
          Entry(RootDir, UsersJson, <<JunkLine>>)>> : a \in RunArchives}
  \cup {<<Entry(RootDir, ConversationsJson, TextOf(<<CHOOSE r \in RunRecords : r.id = "A">>)),
          Entry(RootDir, ProjectsJson, <<JunkLine>>)>>,
        <<Entry("sub/", ConversationsJson, TextOf(<<CHOOSE r \in RunRecords : r.id = "A">>))>>,
        <<Entry(RootDir, "Conversations.JSON",
                TextOf(<<CHOOSE r \in RunRecords : r.id = "A">>))>>,
        <<Entry(RootDir, ConversationsJson, <<JunkLine>>)>>,
        <<Entry(RootDir, "chat.html", <<JunkLine>>)>>}

\* handleZipFile is called on a file, the provider forced or not.
InitRun ==
  /\ zip \in RunZips
  /\ forcedProvider \in {NoProvider} \cup ForcedProviders
  /\ storeIgnores \in {{}, {"A"}}
  /\ existing = NoExisting
  /\ ExecutorIdle /\ NoOtherRun /\ StoreIdle /\ SideIdle
  /\ raw = <<>>
  /\ pc = "start"
  /\ allSummaries = <<>>
  /\ filtered = <<>>
  /\ selection = {}
  /\ selRep = "set"
  /\ keyword = <<>>
  /\ sortKey = "updatedAt"
  /\ sortDir = "desc"
  /\ rows = <<>>
  /\ importDisabled = TRUE
  /\ globalIgnores = {}
  /\ passDone = FALSE
  /\ tasks = <<>>
  /\ manage = ManageClosed
  /\ confirmed = {}
  /\ handed = <<>>
  /\ lastOp = "selectZipFile"
  /\ threw = FALSE
  /\ provider = NoProvider
  /\ events = <<>>
  /\ notice = NoNotice
  /\ recorded = FALSE
  /\ reportWritten = FALSE
  /\ processingFailed = FALSE

modalVars == <<allSummaries, viewVars, storeVars, selection, selRep, rows,
               importDisabled, threw>>

\* The catch and finally blocks of handleZipFile: the progress callback, if
\* the progress modal was created, gets an 'error' event; the message is
\* shown as a Notice; the import report is written.
Failed(message, op) ==
  /\ events' = IF pc \in {"processor", "record"} THEN Append(events, "error") ELSE events
  /\ notice' = message
  /\ reportWritten' = TRUE
  /\ pc' = "failed"
  /\ lastOp' = op

\* handleZipFile: the archive is looked up among the imported ones.
CheckReprocess ==
  /\ pc = "start"
  /\ \E isReprocess \in BOOLEAN :
       pc' = IF isReprocess THEN "reprocessDialog" ELSE "validate"
  /\ lastOp' = "check"
  /\ UNCHANGED <<zip, raw, confirmed, handed, flowVars, modalVars>>

\* The 'Already processed' dialog is answered.
ReprocessDialog ==
  /\ pc = "reprocessDialog"
  /\ \E shouldReimport \in BOOLEAN :
       IF shouldReimport
       THEN /\ pc' = "validate"
            /\ UNCHANGED <<notice, reportWritten>>
       ELSE /\ pc' = "cancelled"
            /\ notice' = ImportCancelled
            /\ reportWritten' = TRUE
  /\ lastOp' = "dialog"
  /\ UNCHANGED <<zip, raw, confirmed, handed, modalVars, forcedProvider, provider,
                 vaultVars, events, recorded, processingFailed>>

\* handleZipFile: zip = await this.validateZipFile(file, forcedProvider)
ValidateZipFile ==
  /\ pc = "validate"
  /\ LET result == validateZipFile(zip, forcedProvider) IN
       IF result = ValidZip
       THEN /\ pc' = "extract"
            /\ lastOp' = "validate"
            /\ UNCHANGED <<events, notice, reportWritten>>
       ELSE Failed(result, "validate")
  /\ UNCHANGED <<zip, raw, confirmed, handed, modalVars, forcedProvider, provider,
                 vaultVars, recorded, processingFailed>>

\* handleZipFile: validateProviderMatch when the provider is forced, else
\* detectProvider; an unknown provider ends the run.
ResolveProvider ==
  /\ pc = "extracted"
  /\ IF forcedProvider # NoProvider /\ validateProviderMatch(raw, forcedProvider)
     THEN /\ Failed(ProviderMismatch, "provider")
          /\ UNCHANGED provider
     ELSE LET found == IF forcedProvider # NoProvider THEN forcedProvider
                       ELSE detectProvider(raw)
          IN /\ provider' = found
             /\ IF found = "unknown"
                THEN Failed(UnknownProvider, "provider")
                ELSE /\ pc' = "summaries"
                     /\ lastOp' = "provider"
                     /\ UNCHANGED <<events, notice, reportWritten>>
  /\ UNCHANGED <<zip, raw, confirmed, handed, modalVars, forcedProvider, vaultVars,
                 recorded, processingFailed>>

\* handleZipFile: the summaries are built and the selection modal is opened
\* over them.
OpenSelectionModal ==
  /\ pc = "summaries"
  /\ allSummaries' = buildChatSummaries(raw, storeIgnores, existing)
  /\ notice' = LoadedNotice
  /\ selection' = InitialSelection(allSummaries')
  /\ selRep' = "set"
  /\ keyword' = <<>>
  /\ sortKey' = "updatedAt"
  /\ sortDir' = "desc"
  /\ filtered' = applyFilters(allSummaries', <<>>, "updatedAt", "desc")
  /\ rows' = renderList(filtered', allSummaries', selection')
  /\ importDisabled' = updateCounts(selection')
  /\ globalIgnores' = {}
  /\ passDone' = FALSE
  /\ tasks' = <<LoadTask>>
  /\ manage' = ManageClosed
  /\ pc' = "modal"
  /\ lastOp' = "open"
  /\ UNCHANGED <<zip, raw, confirmed, handed, storeIgnores, threw, forcedProvider,
                 provider, vaultVars, events, recorded, reportWritten, processingFailed>>

\* Variant of the start of processing that reports 'processing' before
\* 'scanning'.
StartProcessing_ScansLate ==
  /\ pc = "processing"
  /\ events' = events \o <<"validation", "processing", "scanning">>
  /\ pc' = "processor"
  /\ lastOp' = "process"
  /\ UNCHANGED <<zip, raw, confirmed, handed, modalVars, forcedProvider, provider,
                 vaultVars, notice, recorded, reportWritten, processingFailed>>

\* handleZipFile and processConversationsFromRaw up to the call of the
\* conversation processor: the progress modal is opened and gets the
\* 'validation', 'scanning' and 'processing' events.
StartProcessing ==
  /\ pc = "processing"
  /\ events' = events \o <<"validation", "scanning", "processing">>
  /\ pc' = "processor"
  /\ lastOp' = "process"
  /\ UNCHANGED <<zip, raw, confirmed, handed, modalVars, forcedProvider, provider,
                 vaultVars, notice, recorded, reportWritten, processingFailed>>

\* The conversation processor reports its progress.
ProcessorProgress ==
  /\ pc = "processor"
  /\ Len(events) < MaxEvents
  /\ events' = Append(events, "processing")
  /\ lastOp' = "progress"
  /\ UNCHANGED <<zip, raw, pc, confirmed, handed, modalVars, forcedProvider, provider,
                 vaultVars, notice, recorded, reportWritten, processingFailed>>

\* processConversationsFromRaw, when processRawConversations settles: on
\* success the summary is added and 'writing' is reported; a failure is
\* caught and logged, and handleZipFile goes on.
ProcessingSettled ==
  /\ pc = "processor"
  /\ \E ok \in BOOLEAN :
       /\ events' = IF ok THEN Append(events, "writing") ELSE events
       /\ processingFailed' = ~ok
  /\ pc' = "record"
  /\ lastOp' = "processed"
  /\ UNCHANGED <<zip, raw, confirmed, handed, modalVars, forcedProvider, provider,
                 vaultVars, notice, recorded, reportWritten>>

\* handleZipFile after processing: the archive is recorded as imported, the
\* settings are saved and 'complete' is reported; a failure of the save ends
\* in the catch block.
RecordArchive ==
  /\ pc = "record"
  /\ recorded' = TRUE
  /\ \E saved \in BOOLEAN :
       IF saved
       THEN /\ events' = Append(events, "complete")
            /\ reportWritten' = TRUE
            /\ pc' = "done"
            /\ lastOp' = "record"
            /\ UNCHANGED notice
       ELSE Failed(StorageError, "record")
  /\ UNCHANGED <<zip, raw, confirmed, handed, modalVars, forcedProvider, provider,
                 vaultVars, processingFailed>>

NextRun ==
  \/ CheckReprocess
  \/ ReprocessDialog
  \/ ValidateZipFile
  \/ ExtractRawConversations
  \/ ResolveProvider
  \/ OpenSelectionModal
  \/ \E i \in 1..Len(tasks) : refreshGlobalIgnores(i)
  \/ \E r \in 1..Len(rows) : RowToggle(r)
  \/ ClearAll
  \/ ImportSelected
  \/ CancelModal
  \/ StartProcessing
  \/ ProcessorProgress
  \/ ProcessingSettled
  \/ RecordArchive

SpecRun == InitRun /\ [][NextRun]_vars

\* ------------------------------------------------ claims: an import run
\* The archive holds one entry, a conversations.json at some folder depth and
\* in some letter case.
ConversationsJsonAlone == Len(zip) = 1 /\ KeyMatches(zip[1].key)

\* C12: an archive whose conversations.json lies at any folder depth, or whose
\* name differs only in letter case, passes the validation of the archive:
\* the run goes on to the normalizer instead of rejecting it.
NestedOrCaseVariantReachesNormalizer ==
  (ConversationsJsonAlone /\ lastOp = "validate") => pc = "extract"

\* The archive is structurally invalid: it has no conversations.json, or it
\* holds a combination of files no export format has, or its content yields
\* no record after every fallback.
StructurallyInvalid ==
  \/ FindConversationsEntry(zip) = 0
  \/ HasFile(zip, ProjectsJson) /\ ~HasFile(zip, UsersJson)
  \/ extractRawConversationsFromZip(zip) = <<>>

\* The selection modal was opened in this run: its onOpen has issued the load
\* of the exclusion set.
ModalWasOpened == tasks # <<>> \/ passDone

\* C13: a structurally invalid archive is fatal whether the provider is forced
\* or auto-detected: the selection modal is never opened, nothing is
\* processed (no progress event), the archive is not recorded as imported, and
\* a run that ends ends in the error state with a message shown.
StructurallyInvalidArchiveIsFatal ==
  StructurallyInvalid =>
    /\ ~ModalWasOpened
    /\ events = <<>>
    /\ ~recorded
    /\ pc \notin {"done", "noSelection", "dismissed"}
    /\ pc = "failed" => notice \notin {NoNotice, LoadedNotice}

\* The shape of some record of the archive contradicts the forced provider.
ContradictsForcedProvider ==
  \E i \in 1..Len(raw) :
    \/ forcedProvider = "chatgpt" /\ ~isChatGPT(raw[i])
    \/ forcedProvider = "claude" /\ ~isClaude(raw[i])

\* C14: when the provider is forced and the shape of the content contradicts
\* it, whichever record has the contradicting shape, the run fails with
\* Provider Mismatch: it gets no further than the check of the provider, so
\* the modal is not opened and nothing is processed.
ForcedProviderMismatchIsFatal ==
  (forcedProvider # NoProvider /\ ContradictsForcedProvider /\ pc # "extracted") =>
    /\ pc = "failed"
    /\ notice = ProviderMismatch
    /\ ~ModalWasOpened
    /\ events = <<>>

\* Positions of the records no accessor throws for.
WellFormed == {i \in 1..Len(raw) : raw[i].throws = NoThrow}

\* C15: when an accessor throws for a record, that record alone is left out of
\* the summary list, the other records keep their summaries in archive order,
\* and the run goes on through the selection: 'Import selected' hands the
\* selected records on, or ends with 'No chats selected', and does not fail.
MalformedRecordIsSkippedAndRunContinues ==
  /\ ModalWasOpened =>
       /\ Len(allSummaries) = Cardinality(WellFormed)
       /\ \A i \in WellFormed :
            allSummaries[Cardinality({m \in WellFormed : m <= i})].uid = getId(raw[i])
  /\ (lastOp = "import" /\ WellFormed # 1..Len(raw)) =>
       /\ pc \in {"processing", "noSelection"}
       /\ pc = "processing" <=> (\E i \in WellFormed : getId(raw[i]) \in confirmed)

\* ------------------------------------------------- summaries alone
\* Records with and without a native id, updated at either of two times, and
\* what the vault and the Global Exclusion Set may hold of them.
NoId == ""
SummaryRecords ==
  [id : RawIds \cup {NoId}, title : {<<"a">>}, create_time : {1}, update_time : {1, 2},
   shape : {"chatgpt"}, throws : {NoThrow}]
ExistingMaps == UNION {[d -> {1, 2}] : d \in SUBSET RawIds}

\* handleZipFile has the records of the archive and is about to build their
\* summaries.
InitSummaries ==
  /\ raw \in SeqsUpTo(SummaryRecords, MaxRecs)
  /\ zip = ZipOf(raw)
  /\ storeIgnores \in SUBSET RawIds
  /\ existing \in ExistingMaps
  /\ ExecutorIdle /\ NoOtherRun /\ StoreIdle /\ SideIdle
  /\ forcedProvider = NoProvider
  /\ provider = "chatgpt"
  /\ pc = "summaries"
  /\ allSummaries = <<>>
  /\ filtered = <<>>
  /\ selection = {}
  /\ selRep = "set"
  /\ keyword = <<>>
  /\ sortKey = "updatedAt"
  /\ sortDir = "desc"
  /\ rows = <<>>
  /\ importDisabled = TRUE
  /\ globalIgnores = {}
  /\ passDone = FALSE
  /\ tasks = <<>>
  /\ manage = ManageClosed
  /\ confirmed = {}
  /\ handed = <<>>
  /\ lastOp = "provider"
  /\ threw = FALSE
  /\ events = <<>>
  /\ notice = NoNotice
  /\ recorded = FALSE
  /\ reportWritten = FALSE
  /\ processingFailed = FALSE

NextSummaries == OpenSelectionModal

SpecSummaries == InitSummaries /\ [][NextSummaries]_vars

SummaryUidsAreUnique ==
  \A i, j \in 1..Len(allSummaries) :
    allSummaries[i].uid = allSummaries[j].uid => i = j

\* C18: the uid of a summary is the record's native id when the adapter
\* returns a non-empty one, and is never empty: a record without a native id
\* gets a derived uid.
UidIsNativeOrDerived ==
  pc = "modal" =>
    /\ Len(allSummaries) = Len(raw)
    /\ \A i \in 1..Len(raw) :
         /\ getId(raw[i]) # NoId => allSummaries[i].uid = getId(raw[i])
         /\ allSummaries[i].uid # NoId

\* The place of a phase in the order of a run.
PhaseRank(phase) ==
  CASE phase = "validation" -> 0
    [] phase = "scanning" -> 1
    [] phase = "processing" -> 2
    [] phase = "writing" -> 3
    [] phase = "complete" -> 4
    [] OTHER -> 5

FailedProcessingEndsInError ==
  /\ processingFailed =>
       /\ \A i \in 1..Len(events) : events[i] # "complete"
       /\ pc \in {"done", "failed"} => events[Len(events)] = "error"
  /\ ~(\E i, j \in 1..Len(events) : events[i] = "complete" /\ events[j] = "error")

\* ------------------------------------- claims: Global Exclusion Store
\* C21: add is an idempotent union: when add(S) resolves the stored set is the
\* old set together with S, so every UID excluded before is still excluded,
\* and an add of UIDs that are all excluded already changes nothing.
AddIsIdempotentUnion ==
  [][lastOp' = "addResolved" =>
       \E i \in 1..Len(tasks) :
         /\ tasks[i].kind = "add"
         /\ tasks' = [tasks EXCEPT ![i] = RefreshTask]
         /\ \A u \in StoreUIDs :
              u \in storeIgnores' <=> (u \in storeIgnores \/ u \in tasks[i].uids)
         /\ tasks[i].uids \subseteq storeIgnores => storeIgnores' = storeIgnores]_vars

\* An add has resolved over a set that held a UID already: the old UID and
\* the added one are both excluded.
AddedToNonEmptyExclusionSet ==
  /\ lastOp = "addResolved"
  /\ "X" \in storeIgnores
  /\ "A" \in storeIgnores
  /\ "A" \notin globalIgnores

\* C22: set replaces the Global Exclusion Set: when set(m) resolves the stored
\* set is m, whatever it was before; 'Clear exclude' is set of the empty
\* mapping, and the list read after it is empty.
SetReplacesAndClearEmpties ==
  [][/\ lastOp' = "setResolved" =>
          \E i \in 1..Len(tasks) :
            /\ tasks[i].kind = "set"
            /\ tasks' = [tasks EXCEPT ![i] = RefreshTask]
            /\ storeIgnores' = tasks[i].uids
     /\ lastOp' = "clearExclude" => tasks' = Append(tasks, Task("set", {}))
     /\ lastOp' = "refresh" => globalIgnores' = storeIgnores]_vars

\* A set has emptied an exclusion set that held UIDs; the modal's copy still
\* shows them.
ClearedNonEmptyExclusionSet ==
  /\ lastOp = "setResolved"
  /\ storeIgnores = {}
  /\ globalIgnores = {"B", "X"}

\* ------------------------------------------- import sessions in a row
\* handleZipFile is called again on the same archive once the run before it
\* is over and no store operation is in flight: it gets as far as
\* buildChatSummaries.
StartNextRun ==
  /\ pc \in {"dismissed", "noSelection", "processing"}
  /\ tasks = <<>>
  /\ pc' = "summaries"
  /\ confirmed' = {}
  /\ handed' = <<>>
  /\ lastOp' = "nextRun"
  /\ UNCHANGED <<zip, raw, flowVars, modalVars>>

NextSessions ==
  \/ \E i \in 1..Len(tasks) : refreshGlobalIgnores(i)
  \/ \E i \in 1..Len(tasks) : addGlobalIgnores(i)
  \/ \E i \in 1..Len(tasks) : setGlobalIgnores(i)
  \/ \E r \in 1..Len(rows) : RowToggle(r)
  \/ AddSelectedToExclude
  \/ ClearExclude
  \/ ImportSelected
  \/ CancelModal
  \/ StartNextRun
  \/ OpenSelectionModal

SpecSessions == InitExclude /\ [][NextSessions]_vars

\* C23: exclusions persist across sessions: the Global Exclusion Set changes
\* only when an add or a set resolves and loses a UID only by a set; a later
\* session labels every excluded UID `ignored` and its exclusion pass leaves
\* no excluded UID in the initial selection.
ExclusionsPersistAcrossSessions ==
  [][/\ storeIgnores' # storeIgnores => lastOp' \in {"addResolved", "setResolved"}
     /\ ~(storeIgnores \subseteq storeIgnores') => lastOp' = "setResolved"
     /\ lastOp' = "open" =>
          \A j \in 1..Len(allSummaries') :
            allSummaries'[j].uid \in storeIgnores => allSummaries'[j].status = "ignored"
     /\ lastOp' = "load" => selection' \cap storeIgnores = {}]_vars

\* A UID added to the exclusion set in an earlier session is labelled
\* `ignored` and is not selected after the load of a later one.
ExcludedEarlierIgnoredLater ==
  /\ lastOp = "load"
  /\ "A" \in storeIgnores
  /\ "A" \notin selection
  /\ \E j \in 1..Len(allSummaries) :
       allSummaries[j].uid = "A" /\ allSummaries[j].status = "ignored"

\* ------------------------------------------------ reconciler and executor
\* conversationProcessor.processRawConversations, as the run calls it at
\* processConversationsFromRaw: the Vault Reconciler builds the plan of the
\* selected uids and the Import Executor applies it, one item at a time. Each
\* note and each Materialization Record is durable; the plan, the cursor and
\* the report live in memory and are lost when the process stops.

MaxPlan == 2
MaxRuns == 2

UidNames == <<"A", "B", "C", "D">>

\* The selection handed to the processor: the uids of the archive in order,
\* each with the canonical hash of its transcript and its update time. The
\* archive is the same in every run.
ArchiveHash == 2
ArchiveUpdatedAt == 2
ArchiveItems ==
  [i \in 1..MaxPlan |->
     [uid |-> UidNames[i], contentHash |-> ArchiveHash, updatedAt |-> ArchiveUpdatedAt]]

\* A note that a stopped write left half written holds no transcript.
TornNote == 0

\* FileMaterialisedMeta, the fields the classification reads.
Meta(hash, updatedAt) == [contentHash |-> hash, updatedAt |-> updatedAt]

\* What the vault may hold of a uid before the first run: the archive's
\* transcript as it is, an older transcript, the same transcript with an
\* older or a newer stored update time.
StoredMetas ==
  {Meta(ArchiveHash, ArchiveUpdatedAt), Meta(1, ArchiveUpdatedAt),
   Meta(ArchiveHash, 1), Meta(ArchiveHash, 3), Meta(1, 1)}

\* MaterialisedStore.get: the record of the uid, or null when there is no file.
get(store, uid) == IF uid \in DOMAIN store THEN store[uid] ELSE NoRecord

\* Variant of put that keeps one record file for the whole store.
put_SingleFile(store, uid, meta) == [u \in {uid} |-> meta]

\* MaterialisedStore.put: the record file of the uid is written anew.
put(store, uid, meta) ==
  [u \in DOMAIN store \cup {uid} |-> IF u = uid THEN meta ELSE store[u]]

\* Variant of the classification that looks at the content hash only.
Classify_HashOnly(item, store) ==
  LET record == get(store, item.uid)
  IN IF record = NoRecord THEN "NEW"
     ELSE IF record.contentHash # item.contentHash THEN "UPDATE"
     ELSE "SKIP"

\* The classification rule of the reconciler, in order.
Classify(item, store) ==
  LET record == get(store, item.uid)
  IN IF record = NoRecord THEN "NEW"
     ELSE IF \/ record.contentHash # item.contentHash
             \/ item.updatedAt > record.updatedAt
     THEN "UPDATE"
     ELSE "SKIP"

NoReason == "none"
HashEqual == "hash equal"

PlanItemOf(item, store) ==
  LET action == Classify(item, store)
  IN [uid |-> item.uid, action |-> action,
      contentHash |-> item.contentHash, updatedAt |-> item.updatedAt,
      reason |-> IF action = "SKIP" THEN HashEqual ELSE NoReason]

PlanOf(items, store) == [i \in 1..Len(items) |-> PlanItemOf(items[i], store)]

ReportEntry(item, outcome) == [uid |-> item.uid, outcome |-> outcome]

ProcessingEvents == <<"validation", "scanning", "processing">>

\* The import service with no selection modal open and nothing of the vault
\* scanned: the state of everything that the processor does not touch.
ServiceAtRest ==
  /\ forcedProvider = NoProvider
  /\ provider = "chatgpt"
  /\ existing = NoExisting
  /\ zip = <<>>
  /\ raw = <<>>
  /\ storeIgnores = {}
  /\ allSummaries = <<>>
  /\ filtered = <<>>
  /\ selection = {}
  /\ selRep = "set"
  /\ keyword = <<>>
  /\ sortKey = "updatedAt"
  /\ sortDir = "desc"
  /\ rows = <<>>
  /\ importDisabled = TRUE
  /\ globalIgnores = {}
  /\ passDone = FALSE
  /\ tasks = <<>>
  /\ manage = ManageClosed
  /\ confirmed = {}
  /\ handed = <<>>
  /\ threw = FALSE
  /\ notice = NoNotice
  /\ recorded = FALSE
  /\ reportWritten = FALSE
  /\ processingFailed = FALSE

\* The run at the call of processRawConversations, over a vault whose records
\* agree with its notes.
InitExecutor ==
  /\ \E S \in SUBSET {UidNames[i] : i \in 1..MaxPlan} :
       materialised \in [S -> StoredMetas]
  /\ notes = [u \in DOMAIN materialised |-> materialised[u].contentHash]
  /\ plan = <<>>
  /\ cursor = 1
  /\ itemPhase = "planning"
  /\ cancelRequested = FALSE
  /\ report = <<>>
  /\ lastReport = <<>>
  /\ runNo = 1
  /\ NoOtherRun /\ StoreIdle /\ SideIdle
  /\ pc = "processor"
  /\ events = ProcessingEvents
  /\ lastOp = "process"
  /\ ServiceAtRest

restOfRun == <<zip, raw, confirmed, handed, modalVars, forcedProvider, provider,
               existing, overlapVars, profileVars, sideVars, notice, recorded,
               reportWritten, processingFailed>>

\* The reconciler: the whole plan is computed before any write.
PlanRun ==
  /\ pc = "processor"
  /\ itemPhase = "planning"
  /\ plan' = PlanOf(ArchiveItems, materialised)
  /\ cursor' = 1
  /\ itemPhase' = "idle"
  /\ lastOp' = "plan"
  /\ UNCHANGED <<materialised, notes, cancelRequested, report, lastReport, runNo,
                 pc, events, restOfRun>>

\* Variant of the dispatch that records a NEW or UPDATE item before its file
\* is written.
DispatchItem_RecordsFirst ==
  /\ itemPhase = "idle"
  /\ cursor <= Len(plan)
  /\ ~cancelRequested
  /\ LET item == plan[cursor]
     IN IF item.action = "SKIP"
        THEN /\ report' = Append(report, ReportEntry(item, "skipped"))
             /\ cursor' = cursor + 1
             /\ UNCHANGED <<itemPhase, materialised>>
        ELSE /\ itemPhase' = "writing"
             /\ materialised' = put(materialised, item.uid,
                                    Meta(item.contentHash, item.updatedAt))
             /\ UNCHANGED <<report, cursor>>
  /\ lastOp' = "dispatch"
  /\ UNCHANGED <<notes, plan, cancelRequested, lastReport, runNo,
                 pc, events, restOfRun>>

\* The executor between two items, no cancel requested: a SKIP item gets its
\* report entry and no write; the write of a NEW or UPDATE item starts.
DispatchItem ==
  /\ itemPhase = "idle"
  /\ cursor <= Len(plan)
  /\ ~cancelRequested
  /\ LET item == plan[cursor]
     IN IF item.action = "SKIP"
        THEN /\ report' = Append(report, ReportEntry(item, "skipped"))
             /\ cursor' = cursor + 1
             /\ UNCHANGED itemPhase
        ELSE /\ itemPhase' = "writing"
             /\ UNCHANGED <<report, cursor>>
  /\ lastOp' = "dispatch"
  /\ UNCHANGED <<materialised, notes, plan, cancelRequested, lastReport, runNo,
                 pc, events, restOfRun>>

\* The file write of the item at the cursor completes, at the first attempt
\* or at the retry under the safe-fallback filename.
WriteCompletes ==
  /\ itemPhase \in {"writing", "retrying"}
  /\ notes' = put(notes, plan[cursor].uid, plan[cursor].contentHash)
  /\ itemPhase' = "written"
  /\ lastOp' = "written"
  /\ UNCHANGED <<materialised, plan, cursor, cancelRequested, report, lastReport,
                 runNo, pc, events, restOfRun>>

\* Variant of the failed write that ends the batch at the item that failed.
WriteFails_AbortsBatch ==
  /\ itemPhase \in {"writing", "retrying"}
  /\ IF itemPhase = "writing"
     THEN /\ itemPhase' = "retrying"
          /\ UNCHANGED <<report, cursor>>
     ELSE /\ itemPhase' = "completed"
          /\ report' = Append(report, ReportEntry(plan[cursor], "error"))
          /\ cursor' = cursor + 1
  /\ lastOp' = "writeFailed"
  /\ UNCHANGED <<materialised, notes, plan, cancelRequested, lastReport, runNo,
                 pc, events, restOfRun>>

\* The file write throws: once it is tried again under the safe-fallback
\* filename; the second failure is caught, the item is reported with an error
\* and the executor goes on to the next item.
WriteFails ==
  /\ itemPhase \in {"writing", "retrying"}
  /\ IF itemPhase = "writing"
     THEN /\ itemPhase' = "retrying"
          /\ UNCHANGED <<report, cursor>>
     ELSE /\ itemPhase' = "idle"
          /\ report' = Append(report, ReportEntry(plan[cursor], "error"))
          /\ cursor' = cursor + 1
  /\ lastOp' = "writeFailed"
  /\ UNCHANGED <<materialised, notes, plan, cancelRequested, lastReport, runNo,
                 pc, events, restOfRun>>

\* Variant of the record step that stores no update time with the hash.
PutRecord_WithoutTime ==
  /\ itemPhase = "written"
  /\ LET item == plan[cursor]
     IN /\ materialised' = put(materialised, item.uid, Meta(item.contentHash, 0))
        /\ report' = Append(report, ReportEntry(item,
                        IF item.action = "NEW" THEN "created" ELSE "updated"))
  /\ cursor' = cursor + 1
  /\ itemPhase' = "idle"
  /\ lastOp' = "recorded"
  /\ UNCHANGED <<notes, plan, cancelRequested, lastReport, runNo,
                 pc, events, restOfRun>>

\* After the write: the Materialization Record of the item is put and the
\* item is reported.
PutRecord ==
  /\ itemPhase = "written"
  /\ LET item == plan[cursor]
     IN /\ materialised' = put(materialised, item.uid,
                               Meta(item.contentHash, item.updatedAt))
        /\ report' = Append(report, ReportEntry(item,
                        IF item.action = "NEW" THEN "created" ELSE "updated"))
  /\ cursor' = cursor + 1
  /\ itemPhase' = "idle"
  /\ lastOp' = "recorded"
  /\ UNCHANGED <<notes, plan, cancelRequested, lastReport, runNo,
                 pc, events, restOfRun>>

\* The user asks to cancel while the plan is applied.
RequestCancel ==
  /\ itemPhase \in {"idle", "writing", "retrying", "written"}
  /\ ~cancelRequested
  /\ cancelRequested' = TRUE
  /\ lastOp' = "cancelRequest"
  /\ UNCHANGED <<materialised, notes, plan, cursor, itemPhase, report, lastReport,
                 runNo, pc, events, restOfRun>>

\* The cancel check between two items: no further item is dispatched and the
\* executor returns its partial report.
StopOnCancel ==
  /\ itemPhase = "idle"
  /\ cursor <= Len(plan)
  /\ cancelRequested
  /\ itemPhase' = "cancelled"
  /\ lastOp' = "stop"
  /\ UNCHANGED <<materialised, notes, plan, cursor, cancelRequested, report,
                 lastReport, runNo, pc, events, restOfRun>>

\* Every item of the plan has its report entry.
FinishPlan ==
  /\ itemPhase = "idle"
  /\ cursor > Len(plan)
  /\ itemPhase' = "completed"
  /\ lastOp' = "finish"
  /\ UNCHANGED <<materialised, notes, plan, cursor, cancelRequested, report,
                 lastReport, runNo, pc, events, restOfRun>>

\* The process stops while the plan is applied. A write that was under way
\* leaves the note as it was or half written.
Crash ==
  /\ itemPhase \in {"idle", "writing", "retrying", "written"}
  /\ itemPhase' = "crashed"
  /\ \/ UNCHANGED notes
     \/ /\ itemPhase \in {"writing", "retrying"}
        /\ notes' = put(notes, plan[cursor].uid, TornNote)
  /\ lastOp' = "crash"
  /\ UNCHANGED <<materialised, plan, cursor, cancelRequested, report, lastReport,
                 runNo, pc, events, restOfRun>>

\* processConversationsFromRaw after the processor has returned, with a full
\* or a partial report: the summary is added and 'writing' is reported.
ProcessorReturns ==
  /\ pc = "processor"
  /\ itemPhase \in {"completed", "cancelled"}
  /\ events' = Append(events, "writing")
  /\ pc' = "record"
  /\ lastOp' = "processed"
  /\ UNCHANGED <<execVars, restOfRun>>

\* The same archive and selection are run again.
RunAgain ==
  /\ \/ pc \in {"done", "failed"}
     \/ itemPhase = "crashed"
  /\ runNo < MaxRuns
  /\ runNo' = runNo + 1
  /\ lastReport' = report
  /\ report' = <<>>
  /\ plan' = <<>>
  /\ cursor' = 1
  /\ itemPhase' = "planning"
  /\ cancelRequested' = FALSE
  /\ pc' = "processor"
  /\ events' = ProcessingEvents
  /\ lastOp' = "process"
  /\ UNCHANGED <<materialised, notes, restOfRun>>

NextExecutor ==
  \/ PlanRun
  \/ DispatchItem
  \/ WriteCompletes
  \/ WriteFails
  \/ PutRecord
  \/ RequestCancel
  \/ StopOnCancel
  \/ FinishPlan
  \/ Crash
  \/ ProcessorReturns
  \/ RecordArchive
  \/ RunAgain

SpecExecutor == InitExecutor /\ [][NextExecutor]_vars

PlanActionRule ==
  [][lastOp' = "plan" =>
       /\ Len(plan') = Len(ArchiveItems)
       /\ \A i \in 1..Len(plan') :
            LET item == ArchiveItems[i]
                p == plan'[i]
                found == item.uid \in DOMAIN materialised
                differs == materialised[item.uid].contentHash # item.contentHash
                newer == item.updatedAt > materialised[item.uid].updatedAt
            IN /\ p.uid = item.uid
               /\ p.action \in {"NEW", "UPDATE", "SKIP"}
               /\ p.action = "NEW" <=> ~found
               /\ p.action = "UPDATE" <=> (found /\ (differs \/ newer))
               /\ p.action = "SKIP" <=> (found /\ ~differs /\ ~newer)
               /\ p.reason = HashEqual <=> p.action = "SKIP"]_vars

\* A plan that updates one conversation for its newer update time alone and
\* skips another whose stored update time is the newer one.
UpdatedForTimeAloneAndSkipped ==
  /\ lastOp = "plan"
  /\ \E i, j \in 1..Len(plan) :
       /\ plan[i].action = "UPDATE"
       /\ plan[i].uid \in DOMAIN materialised
       /\ materialised[plan[i].uid].contentHash = plan[i].contentHash
       /\ plan[j].action = "SKIP"
       /\ materialised[plan[j].uid].updatedAt > plan[j].updatedAt

\* C26: in every state, a crash or a failure in the middle of a write
\* included, a NEW or UPDATE item whose Materialization Record is the one of
\* this run (the archive's hash and update time) has had its file write
\* completed: the record is put strictly after the write.
RecordOnlyAfterWrite ==
  \A i \in 1..Len(plan) :
    LET item == plan[i]
    IN (/\ item.action \in {"NEW", "UPDATE"}
        /\ get(materialised, item.uid) = Meta(item.contentHash, item.updatedAt))
       => /\ item.uid \in DOMAIN notes
          /\ notes[item.uid] = item.contentHash
          /\ i < cursor

\* The process stopped in the middle of the second write: the first item is
\* written and recorded, the second has a half-written note and no record.
CrashedMidWriteAfterOneRecorded ==
  /\ itemPhase = "crashed"
  /\ \E i \in 1..Len(report) : report[i].outcome = "created"
  /\ \E u \in DOMAIN notes : notes[u] = TornNote /\ u \notin DOMAIN materialised

\* C27: a write that fails for good is reported with an error on its item and
\* the executor goes on with the next item, leaving the records alone; when
\* the plan is finished every item has its own report entry in plan order
\* (skipped, created, updated or error), and the items that carry this run's
\* Materialization Record are the ones whose write succeeded.
PartialFailureIsolation ==
  [][/\ (lastOp' = "writeFailed" /\ report' # report) =>
          /\ report' = Append(report, ReportEntry(plan[cursor], "error"))
          /\ cursor' = cursor + 1
          /\ itemPhase' = "idle"
          /\ materialised' = materialised
     /\ itemPhase' = "completed" =>
          /\ Len(report') = Len(plan')
          /\ \A i \in 1..Len(plan') :
               LET item == plan'[i]
                   outcome == report'[i].outcome
                   recordedNow == get(materialised', item.uid)
                                    = Meta(item.contentHash, item.updatedAt)
               IN /\ report'[i].uid = item.uid
                  /\ item.action = "SKIP" => outcome = "skipped"
                  /\ item.action = "NEW" => outcome \in {"created", "error"}
                  /\ item.action = "UPDATE" => outcome \in {"updated", "error"}
                  /\ item.action # "SKIP" => (recordedNow <=> outcome # "error")]_vars

\* A finished plan in which an item failed and a later item was written and
\* recorded.
FailedItemThenWrittenItem ==
  /\ itemPhase = "completed"
  /\ \E i, j \in 1..Len(report) :
       /\ i < j
       /\ report[i].outcome = "error"
       /\ report[j].outcome \in {"created", "updated"}
       /\ report[i].uid \notin DOMAIN materialised
       /\ report[j].uid \in DOMAIN materialised

MaxCalls == 2
MaxFiles == 2

serviceVars == <<zip, raw, pc, confirmed, handed, modalVars, forcedProvider, provider,
                 existing, events, notice, recorded, reportWritten, processingFailed>>

\* The report that handleZipFile creates for file number f of call c.
ReportOf(c, f) == 10 * c + f

InitOverlap ==
  /\ ExecutorIdle /\ NoOtherRun /\ StoreIdle /\ SideIdle
  /\ pc = "start"
  /\ events = <<>>
  /\ lastOp = "idle"
  /\ ServiceAtRest

\* selectZipFile: the user picks n archives and the onchange handler starts.
SelectZipFile(n) ==
  /\ Len(runs) < MaxCalls
  /\ runs' = Append(runs, [files |-> n, handled |-> 0, at |-> "none",
                           passed |-> 0, wrote |-> 0])
  /\ lastOp' = "selectZipFile"
  /\ UNCHANGED <<importReport, serviceVars, sideVars, execVars, profileVars>>

\* handleZipFile, first statement: this.importReport = new ImportReport().
EnterHandleZipFile(c) ==
  /\ runs[c].at = "none"
  /\ runs[c].handled < runs[c].files
  /\ importReport' = ReportOf(c, runs[c].handled + 1)
  /\ runs' = [runs EXCEPT ![c].at = "entered"]
  /\ lastOp' = "enter"
  /\ UNCHANGED <<serviceVars, sideVars, execVars, profileVars>>

\* processConversationsFromRaw: after the awaits of validation and of the
\* selection modal, this.importReport is handed to processRawConversations.
CallProcessor(c) ==
  /\ runs[c].at = "entered"
  /\ runs' = [runs EXCEPT ![c].at = "processing", ![c].passed = importReport]
  /\ lastOp' = "callProcessor"
  /\ UNCHANGED <<importReport, serviceVars, sideVars, execVars, profileVars>>

\* An error or a cancelled dialog before processing: the catch block, or the
\* early return, leads to the finally block.
EndsBeforeProcessing(c) ==
  /\ runs[c].at = "entered"
  /\ runs' = [runs EXCEPT ![c].at = "settled"]
  /\ lastOp' = "endsEarly"
  /\ UNCHANGED <<importReport, serviceVars, sideVars, execVars, profileVars>>

\* processRawConversations settles: the report it returns, the one it was
\* handed, is stored in this.importReport; a rejection is caught and logged.
ProcessorSettles(c) ==
  /\ runs[c].at = "processing"
  /\ \E ok \in BOOLEAN :
       importReport' = IF ok THEN runs[c].passed ELSE importReport
  /\ runs' = [runs EXCEPT ![c].at = "settled"]
  /\ lastOp' = "settles"
  /\ UNCHANGED <<serviceVars, sideVars, execVars, profileVars>>

\* The finally block: writeImportReport writes this.importReport under the
\* name of the run's archive, and the handler goes on to its next file. Of
\* the reports a call has written the last one is kept.
WriteImportReport(c) ==
  /\ runs[c].at = "settled"
  /\ runs' = [runs EXCEPT ![c].at = "none",
                          ![c].handled = @ + 1,
                          ![c].passed = 0,
                          ![c].wrote = importReport]
  /\ lastOp' = "writeReport"
  /\ UNCHANGED <<importReport, serviceVars, sideVars, execVars, profileVars>>

NextOverlap ==
  \/ \E n \in 1..MaxFiles : SelectZipFile(n)
  \/ \E c \in 1..Len(runs) : EnterHandleZipFile(c)
  \/ \E c \in 1..Len(runs) : CallProcessor(c)
  \/ \E c \in 1..Len(runs) : EndsBeforeProcessing(c)
  \/ \E c \in 1..Len(runs) : ProcessorSettles(c)
  \/ \E c \in 1..Len(runs) : WriteImportReport(c)

SpecOverlap == InitOverlap /\ [][NextOverlap]_vars

\* ------------------------------------------------ MaterialisedStore alone
\* Any sequence of get and put calls over an empty store.

InitMaterialised ==
  /\ ExecutorIdle /\ NoOtherRun /\ StoreIdle /\ SideIdle
  /\ pc = "start"
  /\ events = <<>>
  /\ lastOp = "idle"
  /\ ServiceAtRest

storeCallRest == <<notes, plan, cursor, itemPhase, cancelRequested, report, lastReport,
                   runNo, profile, profileFiles, batch, serviceVars, overlapVars,
                   profileVars>>

\* put(meta): `<dir>/<meta.uid>.json` is written with the record.
PutMeta(uid, meta) ==
  /\ materialised' = put(materialised, uid, meta)
  /\ got' = [op |-> "put", uid |-> uid, meta |-> meta]
  /\ lastOp' = "put"
  /\ UNCHANGED storeCallRest

\* get(uid): null without the file, else what the file holds.
GetMeta(uid) ==
  /\ got' = [op |-> "get", uid |-> uid, meta |-> get(materialised, uid)]
  /\ lastOp' = "get"
  /\ UNCHANGED <<materialised, storeCallRest>>

NextMaterialised ==
  \/ \E i \in 1..MaxPlan, meta \in StoredMetas : PutMeta(UidNames[i], meta)
  \/ \E i \in 1..MaxPlan : GetMeta(UidNames[i])

SpecMaterialised == InitMaterialised /\ [][NextMaterialised]_vars

\* C31: the store holds at most one record per uid and starts empty; no call
\* removes a record; a put leaves the record it was given under its uid and
\* changes the record of no other uid; a get changes nothing and resolves to
\* null exactly when the uid has no record, else to the record last put.
OneRecordPerUid ==
  [][/\ DOMAIN materialised \subseteq DOMAIN materialised'
     /\ lastOp' = "put" =>
          /\ got'.uid \in DOMAIN materialised'
          /\ materialised'[got'.uid] = got'.meta
          /\ DOMAIN materialised' \subseteq DOMAIN materialised \cup {got'.uid}
          /\ \A u \in DOMAIN materialised \ {got'.uid} :
               materialised'[u] = materialised[u]
     /\ lastOp' = "get" =>
          /\ materialised' = materialised
          /\ got'.meta = NoRecord <=> got'.uid \notin DOMAIN materialised
          /\ got'.uid \in DOMAIN materialised => got'.meta = materialised[got'.uid]
          /\ (got.op = "put" /\ got.uid = got'.uid) => got'.meta = got.meta]_vars

\* A get that resolved to the record of its uid while the store holds a
\* different record for another uid.
GotRecordBesideAnother ==
  /\ got.op = "get"
  /\ got.meta # NoRecord
  /\ \E u \in DOMAIN materialised : u # got.uid /\ materialised[u] # got.meta

\* ------------------------------------------------ ProfileStore: state.json
\* save and setActive read state.json, change their copy and write it back,
\* with an await before the read and before the write. A call that is not
\* awaited by its caller (ProfileSwitchModal.onChooseSuggestion) runs beside
\* the next one.

MaxOps == 2

ProfileNames == {"Work", "Home"}

InitStore ==
  /\ ExecutorIdle /\ NoOtherRun /\ StoreIdle /\ SideIdle
  /\ pc = "start"
  /\ events = <<>>
  /\ lastOp = "idle"
  /\ ServiceAtRest

\* save(profile) or setActive(name) is called; the call runs up to its first
\* await.
IssueStoreOp(kind, name) ==
  /\ Len(storeOps) < MaxOps
  /\ storeOps' = Append(storeOps, [kind |-> kind, name |-> name, at |-> "called",
                                    state |-> DefaultState])
  /\ lastOp' = kind
  /\ UNCHANGED <<stateJson, serviceVars, sideVars, execVars, overlapVars>>

\* const state = await this.readState(): the call's copy of state.json.
ReadState(i) ==
  /\ storeOps[i].at = "called"
  /\ storeOps' = [storeOps EXCEPT ![i].at = "read", ![i].state = stateJson]
  /\ lastOp' = "readState"
  /\ UNCHANGED <<stateJson, serviceVars, sideVars, execVars, overlapVars>>

\* What the call makes of its copy: both add the name to the profiles,
\* setActive also makes it the active profile.
Changed(op) ==
  [profiles |-> op.state.profiles \cup {op.name},
   activeProfile |-> IF op.kind = "setActive" THEN op.name ELSE op.state.activeProfile]

\* await this.writeState(state): the changed copy replaces state.json.
WriteState(i) ==
  /\ storeOps[i].at = "read"
  /\ stateJson' = Changed(storeOps[i])
  /\ storeOps' = [storeOps EXCEPT ![i].at = "done", ![i].state = DefaultState]
  /\ lastOp' = "writeState"
  /\ UNCHANGED <<serviceVars, sideVars, execVars, overlapVars>>

NextStore ==
  \/ \E kind \in {"save", "setActive"}, name \in ProfileNames : IssueStoreOp(kind, name)
  \/ \E i \in 1..Len(storeOps) : ReadState(i)
  \/ \E i \in 1..Len(storeOps) : WriteState(i)

SpecStore == InitStore /\ [][NextStore]_vars

\* ------------------------------------------------ claims: concurrency
\* C29: at most one handleZipFile run is active at any time, also across two
\* selectZipFile calls; the report a run hands to the processor and the report
\* it writes at its end are the one it created itself.
HandleZipFileRunsNeverOverlap ==
  /\ Cardinality({c \in 1..Len(runs) : runs[c].at # "none"}) <= 1
  /\ \A c \in 1..Len(runs) :
       /\ runs[c].at = "processing" => runs[c].passed = ReportOf(c, runs[c].handled + 1)
       /\ runs[c].handled > 0 => runs[c].wrote = ReportOf(c, runs[c].handled)

\* C30: when the store mutations that were issued have all settled,
\* state.json reflects each of them: every saved or activated profile is
\* listed, and if a profile was activated the active profile is one that
\* was activated.
NoStoreUpdateIsLost ==
  (\A i \in 1..Len(storeOps) : storeOps[i].at = "done") =>
    /\ \A i \in 1..Len(storeOps) : storeOps[i].name \in stateJson.profiles
    /\ (\E i \in 1..Len(storeOps) : storeOps[i].kind = "setActive") =>
         \E i \in 1..Len(storeOps) :
           storeOps[i].kind = "setActive" /\ stateJson.activeProfile = storeOps[i].name

\* ------------------------------------------------ claims: the end of a run
\* handleZipFile under fair scheduling: a promise that can settle does settle
\* and a step that can be taken is taken.
SpecRunFair == InitRun /\ [][NextRun]_vars /\ WF_vars(NextRun)

\* handleZipFile has returned and its finally block has written the report.
RunEnded ==
  /\ pc \in {"done", "failed", "noSelection", "cancelled"}
  /\ reportWritten

\* C32: once the selection modal is closed, by 'Import selected' or by
\* 'Cancel' or dismissal, the run reaches a terminal state and its import
\* report is written.
ClosedModalLeadsToRunEnd ==
  (lastOp \in {"import", "cancel"}) ~> RunEnded

\* C33: the archive is recorded as imported only in a run whose conversation
\* processing ran to completion without an error: never after a failed
\* validation, a declined reprocess prompt, an empty selection, or when
\* processing threw.
RecordedOnlyAfterCleanProcessing ==
  recorded =>
    /\ ~processingFailed
    /\ pc \in {"done", "failed"}
    /\ \E i \in 1..Len(events) : events[i] = "writing"

\* ------------------------------------- the selection modal with profiles
\* The modal that is constructed over the active import profile, and the
\* handleZipFile that opens it and persists the confirmed selection to the
\* active profile.
ModalProfileNames == {"Default", "Work"}

\* The include and ignore sets a stored profile starts with: disjoint, and
\* possibly of another archive's UIDs ("X").
ProfileStartSets ==
  {<<{}, {}>>, <<{"X"}, {}>>, <<{}, {"A"}>>, <<{"A"}, {"X"}>>}

ProfileStartFiles ==
  {NoProfileFiles}
    \cup {[n \in {"Default"} |-> Profile(n, s[1], s[2])] : s \in ProfileStartSets}
    \cup {[n \in ModalProfileNames |-> Profile(n, s[1], s[2])] : s \in ProfileStartSets}

ProfileArchives ==
  {a \in ExcludeArchives :
     /\ Len(a) = 1
     /\ a[1].id = "A"}

\* ProfileStore.get: the stored profile of the name, or null (here: none).
NoProfile == Profile("", {}, {})
getProfile(files, name) == IF name \in DOMAIN files THEN files[name] ELSE NoProfile

\* ProfileStore.getActive: the stored profile of the active name, or an empty
\* profile of that name.
getActive(files, state) ==
  IF state.activeProfile \in DOMAIN files THEN files[state.activeProfile]
  ELSE Profile(state.activeProfile, {}, {})

\* ProfileStore.save: the profile's file is written and its name is added to
\* the list of state.json.
save(p) ==
  /\ profileFiles' = [n \in DOMAIN profileFiles \cup {p.name} |->
                        IF n = p.name THEN p ELSE profileFiles[n]]
  /\ stateJson' = [stateJson EXCEPT !.profiles = @ \cup {p.name}]

\* Constructor of the modal with profiles: every summary's uid that the
\* profile does not ignore and that it includes, or that it need not include
\* because its include map is empty.
ProfileSelection(summaries, p) ==
  {u \in UidsOf(summaries) :
     /\ u \notin p.ignore
     /\ (u \in p.include \/ p.include = {})}

\* handleZipFile has built the summaries, read the active profile and opened
\* the modal over them.
InitProfile ==
  \E archive \in ProfileArchives :
    /\ forcedProvider = "chatgpt"
    /\ provider = "chatgpt"
    /\ existing = NoExisting
    /\ ExecutorIdle /\ NoOtherRun
    /\ storeOps = <<>>
    /\ got = NoCall
    /\ batch = NoBatch
    /\ profileFiles \in ProfileStartFiles
    /\ stateJson = [profiles |-> {"Default"} \cup DOMAIN profileFiles,
                    activeProfile |-> "Default"]
    /\ profile = getActive(profileFiles, stateJson)
    /\ storeIgnores = {}
    /\ events = <<>>
    /\ notice = LoadedNotice
    /\ recorded = FALSE
    /\ reportWritten = FALSE
    /\ processingFailed = FALSE
    /\ zip = ZipOf(archive)
    /\ raw = archive
    /\ allSummaries = buildChatSummaries(archive, storeIgnores, NoExisting)
    /\ selection = ProfileSelection(allSummaries, profile)
    /\ selRep = "set"
    /\ keyword = <<>>
    /\ sortKey = "updatedAt"
    /\ sortDir = "desc"
    /\ filtered = applyFilters(allSummaries, <<>>, "updatedAt", "desc")
    /\ rows = renderList(filtered, allSummaries, selection)
    /\ importDisabled = updateCounts(selection)
    /\ globalIgnores = {}
    /\ passDone = FALSE
    /\ tasks = <<LoadTask>>
    /\ manage = ManageClosed
    /\ pc = "modal"
    /\ confirmed = {}
    /\ handed = <<>>
    /\ lastOp = "open"
    /\ threw = FALSE

profileRest == <<zip, raw, allSummaries, pc, confirmed, handed, forcedProvider,
                 provider, existing, execVars, overlapVars, storeOps, got, batch,
                 events, notice, recorded, reportWritten, processingFailed, viewVars,
                 manage, threw>>

\* onOpen, when listGlobalIgnores resolves: a profile with includes replaces
\* the selection by its include keys; otherwise the globally ignored UIDs of
\* the archive are deselected.
LoadWithProfile ==
  /\ tasks # <<>>
  /\ tasks' = <<>>
  /\ globalIgnores' = storeIgnores
  /\ passDone' = TRUE
  /\ Rendered("set",
              IF profile.include # {} THEN profile.include
              ELSE selection \ (UidsOf(allSummaries) \cap storeIgnores),
              filtered)
  /\ lastOp' = "load"
  /\ UNCHANGED <<profileRest, storeIgnores, stateJson, profile, profileFiles>>

\* 'Save Profile' / 'Save As…' under the name the prompt returns: the selected
\* UIDs are added to the profile's includes; with 'persist unselected' the
\* unselected UIDs of the archive go to the global exclusion set or to the
\* profile's ignores; the profile is saved and becomes the modal's profile.
saveProfile(name, persistUnselected, useGlobalIgnore) ==
  /\ Interactive
  /\ LET stored == getProfile(profileFiles, name)
         old == IF stored = NoProfile THEN Profile(name, {}, {}) ELSE stored
         unselected == UidsOf(allSummaries) \ selection
         new == Profile(name,
                        old.include \cup selection,
                        IF persistUnselected /\ ~useGlobalIgnore
                        THEN old.ignore \cup unselected ELSE old.ignore)
     IN /\ storeIgnores' = IF persistUnselected /\ useGlobalIgnore
                           THEN storeIgnores \cup unselected ELSE storeIgnores
        /\ save(new)
        /\ profile' = new
  /\ lastOp' = "saveProfile"
  /\ UNCHANGED <<profileRest, tasks, globalIgnores, passDone, selection, selRep,
                 rows, importDisabled>>

\* 'Apply…': the chosen profile becomes the modal's profile and the selection
\* becomes its include keys; nothing happens when it has no file.
applyProfile(chosen) ==
  /\ Interactive
  /\ chosen \in stateJson.profiles
  /\ LET prof == getProfile(profileFiles, chosen) IN
       IF prof = NoProfile
       THEN UNCHANGED <<profile, selection, selRep, rows, importDisabled>>
       ELSE /\ profile' = prof
            /\ Rendered("set", prof.include, filtered)
  /\ lastOp' = "applyProfile"
  /\ UNCHANGED <<profileRest, tasks, globalIgnores, passDone, storeIgnores,
                 stateJson, profileFiles>>

\* 'Delete…': the chosen profile is deleted from the store (its file and its
\* name in the list); when it was the modal's profile, the active profile
\* takes its place and the selection is emptied.
deleteProfile(toDelete) ==
  /\ Interactive
  /\ toDelete \in stateJson.profiles
  /\ profileFiles' = [n \in DOMAIN profileFiles \ {toDelete} |-> profileFiles[n]]
  /\ stateJson' = [stateJson EXCEPT !.profiles = @ \ {toDelete}]
  /\ IF profile.name = toDelete
     THEN /\ profile' = getActive(profileFiles', stateJson')
          /\ Rendered("set", {}, filtered)
     ELSE /\ UNCHANGED profile
          /\ Rendered(selRep, selection, filtered)
  /\ lastOp' = "deleteProfile"
  /\ UNCHANGED <<profileRest, tasks, globalIgnores, passDone, storeIgnores>>

\* 'Add to…': the selected UIDs are added to the chosen profile's includes and
\* the profile is saved.
addToProfile(chosen) ==
  /\ Interactive
  /\ chosen \in stateJson.profiles
  /\ LET stored == getProfile(profileFiles, chosen)
         old == IF stored = NoProfile THEN Profile(chosen, {}, {}) ELSE stored
     IN save(Profile(chosen, old.include \cup selection, old.ignore))
  /\ lastOp' = "addToProfile"
  /\ UNCHANGED <<profileRest, tasks, globalIgnores, passDone, storeIgnores,
                 profile, selection, selRep, rows, importDisabled>>

\* Variant of the confirmation that opens the progress modal although no
\* record is selected.
ConfirmWithProfile_Proceeds(persistUnselected, ignoreScope) ==
  /\ Interactive
  /\ ~importDisabled
  /\ confirmed' = selection
  /\ handed' = FilterSelected(raw, selection)
  /\ pc' = "processing"
  /\ lastOp' = "import"
  /\ UNCHANGED <<zip, raw, allSummaries, forcedProvider, provider, existing, execVars,
                 overlapVars, storeOps, got, batch, events, recorded, processingFailed,
                 viewVars, manage, threw, tasks, globalIgnores, passDone, selection,
                 selRep, rows, importDisabled, profile, notice, reportWritten,
                 storeIgnores, stateJson, profileFiles>>

\* 'Import selected' and the handleZipFile that awaits it: the records are
\* filtered to the selected set; with none left the run returns with 'No chats
\* selected' and its finally block writes the import report; otherwise the
\* selection is persisted to the active profile (selected UIDs of the archive
\* into include and out of ignore; with 'persist unselected' the others into
\* the global exclusion set, or into ignore and out of include) and the run
\* goes on to processing.
ConfirmWithProfile(persistUnselected, ignoreScope) ==
  /\ Interactive
  /\ ~importDisabled
  /\ LET selectedSet == selection
         filteredRaw == FilterSelected(raw, selectedSet)
         allUids == {getId(raw[i]) : i \in 1..Len(raw)}
         picked == allUids \cap selectedSet
         unselected == allUids \ selectedSet
         active == getActive(profileFiles, stateJson)
         toIgnore == persistUnselected /\ ignoreScope = "profile"
         new == Profile(active.name,
                        IF toIgnore THEN (active.include \cup picked) \ unselected
                        ELSE active.include \cup picked,
                        IF toIgnore THEN (active.ignore \ picked) \cup unselected
                        ELSE active.ignore \ picked)
     IN /\ confirmed' = selectedSet
        /\ handed' = filteredRaw
        /\ IF Len(filteredRaw) = 0
           THEN /\ pc' = "noSelection"
                /\ notice' = NoChatsSelected
                /\ reportWritten' = TRUE
                /\ UNCHANGED <<storeIgnores, stateJson, profileFiles>>
           ELSE /\ pc' = "processing"
                /\ UNCHANGED <<notice, reportWritten>>
                /\ storeIgnores' = IF persistUnselected /\ ignoreScope = "global"
                                   THEN storeIgnores \cup unselected ELSE storeIgnores
                /\ save(new)
  /\ lastOp' = "import"
  /\ UNCHANGED <<zip, raw, allSummaries, forcedProvider, provider, existing, execVars,
                 overlapVars, storeOps, got, batch, events, recorded, processingFailed,
                 viewVars, manage, threw, tasks, globalIgnores, passDone, selection,
                 selRep, rows, importDisabled, profile>>

NextProfile ==
  \/ LoadWithProfile
  \/ \E r \in 1..Len(rows) : RowToggle(r)
  \/ \E name \in ModalProfileNames, persistUnselected, useGlobalIgnore \in BOOLEAN :
       saveProfile(name, persistUnselected, useGlobalIgnore)
  \/ \E chosen \in ModalProfileNames : applyProfile(chosen)
  \/ \E toDelete \in ModalProfileNames : deleteProfile(toDelete)
  \/ \E chosen \in ModalProfileNames : addToProfile(chosen)
  \/ \E persistUnselected \in BOOLEAN, ignoreScope \in {"profile", "global"} :
       ConfirmWithProfile(persistUnselected, ignoreScope)
  \/ CancelModal
  \/ StartProcessing
  \/ ProcessingSettled
  \/ RecordArchive

SpecProfile == InitProfile /\ [][NextProfile]_vars

\* ------------------------------------- claims: runs of the profile modal
\* C34: when 'Import selected' is confirmed and no record of the archive has
\* its UID in the selection, the run stops as 'No chats selected': the import
\* report is written by that step, no progress event is reported, nothing is
\* handed to processing, the archive is not recorded, and the run stays
\* stopped, so that no second report is written.
NoSelectionStopsTheRun ==
  [][/\ (/\ pc = "modal"
         /\ lastOp' = "import"
         /\ \A i \in 1..Len(raw) : raw[i].id \notin selection)
          => /\ pc' = "noSelection"
             /\ notice' = NoChatsSelected
             /\ ~reportWritten /\ reportWritten'
             /\ events' = <<>>
             /\ handed' = <<>>
             /\ ~recorded'
     /\ pc = "noSelection"
          => /\ pc' = "noSelection"
             /\ reportWritten'
             /\ events' = <<>>
             /\ ~recorded']_vars

\* The includes of a profile of another archive were confirmed: the run
\* stopped, and the load of the exclusion set resolved after it.
StoppedWithForeignSelection ==
  /\ pc = "noSelection"
  /\ confirmed = {"X"}
  /\ reportWritten
  /\ lastOp = "load"

\* C36: while the modal is open the selection is a subset of the UIDs of the
\* summary list, and so is the set handed to onConfirm.
SelectionWithinSummaries ==
  /\ selection \subseteq UidsOf(allSummaries)
  /\ confirmed \subseteq UidsOf(allSummaries)

\* C39: no UID is in both the include and the ignore set of a stored profile.
IncludeAndIgnoreDisjoint ==
  \A n \in DOMAIN profileFiles :
    profileFiles[n].include \cap profileFiles[n].ignore = {}

\* ------------------------------------------ selectZipFile: several files
\* One selectZipFile call whose file dialog returns up to MaxFiles archives:
\* the onchange handler sorts them and awaits handleZipFile for each in turn.

\* 'YYYY-MM-DD-hh-mm-ss' of a time given as its six numbers.
TwoDigits(n) == <<Digits[(n \div 10) + 1], Digits[(n % 10) + 1]>>
StampText(t) ==
  TwoDigits(t[1] \div 100) \o TwoDigits(t[1] % 100)
    \o <<"-">> \o TwoDigits(t[2]) \o <<"-">> \o TwoDigits(t[3])
    \o <<"-">> \o TwoDigits(t[4]) \o <<"-">> \o TwoDigits(t[5])
    \o <<"-">> \o TwoDigits(t[6])

\* An archive file: its name, and the time its name states (NoTime: none).
NoTime == <<>>
FileNamed(prefix, t) ==
  [name |-> prefix \o (IF t = NoTime THEN <<>> ELSE StampText(t)) \o <<"z">>,
   time |-> t]

\* The files the dialog offers: two exports of different times, a second
\* export of the later time, one of the year 0999, and two files whose names
\* hold no timestamp.
PickableFiles ==
  {FileNamed(<<"a", "-">>, <<2024, 1, 2, 3, 4, 5>>),
   FileNamed(<<"b", "-">>, <<2023, 12, 31, 23, 59, 59>>),
   FileNamed(<<"b", "-">>, <<2024, 1, 2, 3, 4, 5>>),
   FileNamed(<<"a", "-">>, <<999, 1, 2, 3, 4, 5>>),
   FileNamed(<<"a">>, NoTime),
   FileNamed(<<"2", "0", "2", "4", "-", "0", "1">>, NoTime)}

\* /(\d{4}-\d{2}-\d{2}-\d{2}-\d{2}-\d{2})/ matches the whole of s.
MatchesTimestamp(s) ==
  /\ Len(s) = 19
  /\ \A i \in 1..19 :
       IF i \in {5, 8, 11, 14, 17} THEN s[i] = "-" ELSE IsDigit(s[i])

\* Variant of getTimestamp that returns "9" for a name without a timestamp.
getTimestamp_Nine(filename) ==
  LET at == {i \in 1..(Len(filename) - 18) :
               MatchesTimestamp(SubSeq(filename, i, i + 18))}
  IN IF at = {} THEN <<"9">>
     ELSE LET first == CHOOSE i \in at : \A j \in at : i <= j
          IN SubSeq(filename, first, first + 18)

\* getTimestamp of sortFilesByTimestamp: the first match of the regex in the
\* name, or "0".
getTimestamp(filename) ==
  LET at == {i \in 1..(Len(filename) - 18) :
               MatchesTimestamp(SubSeq(filename, i, i + 18))}
  IN IF at = {} THEN <<"0">>
     ELSE LET first == CHOOSE i \in at : \A j \in at : i <= j
          IN SubSeq(filename, first, first + 18)

\* The comparator of sortFilesByTimestamp.
CompareFiles(a, b) == localeCompare(getTimestamp(a.name), getTimestamp(b.name))

\* Array.prototype.sort (stable): f is put behind every element that does not
\* compare greater than it.
RECURSIVE InsertFile(_, _)
InsertFile(sorted, f) ==
  IF sorted = <<>> THEN <<f>>
  ELSE IF CompareFiles(f, Head(sorted)) < 0 THEN <<f>> \o sorted
  ELSE <<Head(sorted)>> \o InsertFile(Tail(sorted), f)

RECURSIVE sortFilesByTimestamp(_)
sortFilesByTimestamp(files) ==
  IF files = <<>> THEN <<>>
  ELSE InsertFile(sortFilesByTimestamp(SubSeq(files, 1, Len(files) - 1)),
                  files[Len(files)])

InitBatch ==
  /\ ExecutorIdle /\ NoOtherRun /\ StoreIdle /\ SideIdle
  /\ pc = "start"
  /\ events = <<>>
  /\ lastOp = "idle"
  /\ ServiceAtRest

\* selectZipFile, the onchange handler up to its loop: the picked files are
\* sorted in place.
PickFiles(files) ==
  /\ runs = <<>>
  /\ files # <<>>
  /\ batch' = [picked |-> files, sorted |-> sortFilesByTimestamp(files)]
  /\ runs' = <<[files |-> Len(files), handled |-> 0, at |-> "none",
                passed |-> 0, wrote |-> 0]>>
  /\ lastOp' = "selectZipFile"
  /\ UNCHANGED <<importReport, serviceVars, got, profile, profileFiles, execVars,
                 profileVars>>

NextBatch ==
  \/ \E files \in SeqsUpTo(PickableFiles, MaxFiles) : PickFiles(files)
  \/ \E c \in 1..Len(runs) : EnterHandleZipFile(c)
  \/ \E c \in 1..Len(runs) : CallProcessor(c)
  \/ \E c \in 1..Len(runs) : EndsBeforeProcessing(c)
  \/ \E c \in 1..Len(runs) : ProcessorSettles(c)
  \/ \E c \in 1..Len(runs) : WriteImportReport(c)

SpecBatch == InitBatch /\ [][NextBatch]_vars

\* ------------------------------------------- claims: several files at once
\* The time s is not later than the time t, number by number from the year
\* on; no time at all (a name without a timestamp) is earlier than any time.
RECURSIVE NotLater(_, _)
NotLater(s, t) ==
  IF s = <<>> THEN TRUE
  ELSE IF t = <<>> THEN FALSE
  ELSE IF Head(s) # Head(t) THEN Head(s) < Head(t)
  ELSE NotLater(Tail(s), Tail(t))

\* C35: the archives picked at once are handled one after another in
\* ascending order of the time in their names, those without a timestamp
\* first: the sorted array holds the picked files, each as often as picked, in
\* that order; handleZipFile is entered for the file after the ones already
\* handled, and only when no handleZipFile of the call is running; and a file
\* counts as handled only when its handleZipFile has written its report and
\* returned.
HandledOneByOneInTimeOrder ==
  [][/\ lastOp' = "selectZipFile" =>
          /\ Len(batch'.sorted) = Len(batch'.picked)
          /\ \A f \in PickableFiles :
               Cardinality({i \in 1..Len(batch'.sorted) : batch'.sorted[i] = f})
                 = Cardinality({i \in 1..Len(batch'.picked) : batch'.picked[i] = f})
          /\ \A i, j \in 1..Len(batch'.sorted) :
               i < j => NotLater(batch'.sorted[i].time, batch'.sorted[j].time)
     /\ lastOp' = "enter" =>
          /\ runs[1].at = "none"
          /\ runs'[1].handled = runs[1].handled
          /\ importReport' = ReportOf(1, runs[1].handled + 1)
     /\ (runs # <<>> /\ runs'[1].handled # runs[1].handled) =>
          /\ runs[1].at = "settled"
          /\ runs'[1].at = "none"
          /\ runs'[1].handled = runs[1].handled + 1
     /\ runs # <<>> => batch' = batch]_vars

\* Files were picked with a later one before an earlier one, one of them
\* without a timestamp; all but the last in time order have been handled and
\* handleZipFile has been entered for the last.
ThirdOfReversedPickEntered ==
  /\ Len(batch.picked) >= 2
  /\ \E i \in 1..(Len(batch.picked) - 1) :
       ~NotLater(batch.picked[i].time, batch.picked[i + 1].time)
  /\ batch.sorted[1].time = NoTime
  /\ runs[1].handled = Len(batch.sorted) - 1
  /\ runs[1].at = "entered"

\* ------------------------------------ 'Manage excluded' beside another writer
\* A modal session with the Global Exclude controls, while another session of
\* the plugin adds a UID of an archive of its own to the same store.
ManageArchives ==
  {a \in ExcludeArchives : Len(a) = 2 /\ a[1].id = "A" /\ a[2].id = "B"}

InitManage ==
  \E archive \in ManageArchives, excluded \in {{}, {"B"}} :
    ModalOpened(archive, buildChatSummaries(archive, excluded, NoExisting), excluded)

\* addGlobalIgnores({X}) of the other session resolves.
OtherSessionAdds ==
  /\ "X" \notin storeIgnores
  /\ storeIgnores' = storeIgnores \cup {"X"}
  /\ lastOp' = "otherAdd"
  /\ UNCHANGED <<runVars, viewVars, selection, selRep, rows, importDisabled,
                 globalIgnores, passDone, tasks, manage, threw>>

NextManage ==
  \/ \E i \in 1..Len(tasks) : refreshGlobalIgnores(i)
  \/ \E i \in 1..Len(tasks) : addGlobalIgnores(i)
  \/ \E i \in 1..Len(tasks) : setGlobalIgnores(i)
  \/ \E r \in 1..Len(rows) : RowToggle(r)
  \/ AddSelectedToExclude
  \/ ClearExclude
  \/ ManageExcluded
  \/ \E i \in 1..Len(tasks) : ManageOpened(i)
  \/ \E keep \in SUBSET StoreUIDs : ManageSave(keep)
  \/ ManageCancel
  \/ OtherSessionAdds

SpecManage == InitManage /\ [][NextManage]_vars

\* ----------------------------------------- claims: 'Manage excluded'
\* The set that the last issued store operation asks for.
IssuedSet == tasks[Len(tasks)].uids

IgnoredLabelFollowsExclusionSet ==
  (pc = "modal" /\ tasks = <<>> /\ passDone) =>
    \A r \in 1..Len(rows) :
      (allSummaries[rows[r].idx].status = "ignored")
        <=> (allSummaries[rows[r].idx].uid \in storeIgnores)

====
